---- MODULE Spec2Model ----
(***************************************************************************)
(* Model of the ockernel virtual-memory subsystem: the physical frame      *)
(* allocator (PageManager), the page-reference counter (PageRefCounter),   *)
(* the x86 non-PAE page directory (PageDir) and the copy-on-write engine   *)
(* (copy_on_write / try_copy_on_write).                                    *)
(*                                                                         *)
(* Pages are 4 KiB and page tables hold 1024 entries, as in the source.    *)
(* TLC's integers are 31 bits wide, so the machine of the model has 30-bit *)
(* addresses instead of 32-bit ones: the directory index is 8 bits wide    *)
(* instead of 10, a page-table entry holds an 18-bit frame number, and the *)
(* kernel is linked at 0x38000000 (7/8 of the address space, as 0xe0000000 *)
(* is) with its heap 0x01000000 above.  The model keeps a bounded window   *)
(* of that machine: the first two pages of the user half, the first        *)
(* NumHeapPages pages of the kernel heap and the first NumFrames physical  *)
(* frames.                                                                 *)
(***************************************************************************)
EXTENDS Integers, Sequences, FiniteSets, TLC

(***************************************************************************)
(* Bounds of the model                                                     *)
(***************************************************************************)
NumFrames == 6          \* physical frames tracked by the frame bitset
NumHeapPages == 2       \* kernel-heap virtual pages HEAP_START, ...
NumScanPages == 5       \* user pages whose mapping varies under SpecScan
MaxSent == 2            \* urgent messages accepted in a run of SpecMsg

(***************************************************************************)
(* Program constants                                                       *)
(***************************************************************************)
PAGE_SIZE == 4096
U32Limit == 1073741824                       \* first address not fitting an entry
LINKED_BASE == 14 * 67108864                 \* 0x38000000 (0xe0000000 scaled)
KERNEL_PAGE_DIR_SPLIT == LINKED_BASE
HEAP_START == LINKED_BASE + 16777216         \* LINKED_BASE + 0x01000000
NullPtr == 0                                 \* what alloc() returns on failure

\* PageTableFlags bits
PTF_Present == 1
PTF_ReadWrite == 2
PTF_UserSupervisor == 4
PTF_Global == 256
PTF_CopyOnWrite == 512
PTF_Referenced == 1024
PTF_Shared == 2048

\* PageDirFlags bits
PDF_Present == 1
PDF_ReadWrite == 2
PDF_UserSupervisor == 4
PDF_Global == 256

(***************************************************************************)
(* The modelled window of addresses, directories and threads               *)
(***************************************************************************)
FrameIdx == 0 .. (NumFrames - 1)
Frames == {i * PAGE_SIZE : i \in FrameIdx}
UserIdx == {0, 1}
UserPages == {i * PAGE_SIZE : i \in UserIdx}
HeapPages == {HEAP_START + i * PAGE_SIZE : i \in 0 .. (NumHeapPages - 1)}
VirtPages == UserPages \cup HeapPages

KernelDir == 0                  \* the kernel's directory
Procs == {1, 2}                 \* ids of the processes that exist
Dirs == {KernelDir} \cup Procs
NoTask == 0
\* CPU threads, and the process of the task each is running: thread 0 is idle,
\* threads 1 and 2 run processes 1 and 2, thread 3 a task of a process that
\* no longer exists
Threads == {0, 1, 2, 3}
RunningOn(t) == IF t = 0 THEN NoTask ELSE t

TableIdxOf(addr) == (addr \div PAGE_SIZE) \div 1024
EntryIdxOf(addr) == (addr \div PAGE_SIZE) % 1024
TableIdxs == {TableIdxOf(v) : v \in VirtPages}
EntryIdxs == {EntryIdxOf(v) : v \in VirtPages}
KernelTable == 0                \* the bump-allocated table of the heap window
TableIds == {KernelTable} \cup Procs
\* physical address of page table t (tables live outside the tracked frames)
TablePhys(t) == (1024 + t) * PAGE_SIZE

(***************************************************************************)
(* Option and Result                                                       *)
(***************************************************************************)
None == <<>>
Some(x) == <<x>>
IsSome(o) == Len(o) = 1
Unwrap(o) == o[1]
\* a Result: the Ok payload is (), a bool, a number or a PageFrame
OkWith(b, n, f) == [ok |-> TRUE, err |-> "", bool |-> b, num |-> n, frame |-> f]
OkUnit == OkWith(FALSE, 0, <<>>)
OkBool(b) == OkWith(b, 0, <<>>)
OkNum(n) == OkWith(FALSE, n, <<>>)
OkFrame(f) == OkWith(FALSE, 0, <<f>>)
Err(e) == [ok |-> FALSE, err |-> e, bool |-> FALSE, num |-> 0, frame |-> <<>>]
Panic == Err("panic")
\* an Option<usize> as a result: bool is is_some(), num the value
OkOpt(o) == IF IsSome(o) THEN OkWith(TRUE, Unwrap(o), <<>>) ELSE OkBool(FALSE)

\* impl From<PagingError> for Errno
ErrnoFrom(e) == IF e = "BadAddress" THEN "BadAddress" ELSE "OutOfMemory"

(***************************************************************************)
(* PageFrame and its conversion to and from a PageTableEntry               *)
(***************************************************************************)
DefaultFrame ==
    [addr |-> 0, present |-> FALSE, user_mode |-> FALSE, writable |-> FALSE,
     copy_on_write |-> FALSE, executable |-> FALSE, referenced |-> FALSE,
     shared |-> FALSE]

HasFlag(flags, bit) == (flags \div bit) % 2 = 1
FlagIf(b, bit) == IF b THEN bit ELSE 0
OrFlag(flags, bit) == IF HasFlag(flags, bit) THEN flags ELSE flags + bit

\* PageTableEntry::new
PageTableEntry_new(addr, flags) ==
    ((addr \div PAGE_SIZE) * PAGE_SIZE) + (flags % PAGE_SIZE)
get_address(entry) == (entry \div PAGE_SIZE) * PAGE_SIZE
get_flags(entry) == entry % PAGE_SIZE
set_flags(entry, flags) == get_address(entry) + (flags % PAGE_SIZE)
\* PageDirEntry::new
PageDirEntry_new(addr, flags) ==
    ((addr \div PAGE_SIZE) * PAGE_SIZE) + (flags % PAGE_SIZE)

\* impl From<PageTableEntry> for PageFrame
FrameFromEntry(entry) ==
    [addr |-> get_address(entry),
     present |-> HasFlag(get_flags(entry), PTF_Present),
     user_mode |-> HasFlag(get_flags(entry), PTF_UserSupervisor),
     writable |-> HasFlag(get_flags(entry), PTF_ReadWrite),
     copy_on_write |-> HasFlag(get_flags(entry), PTF_CopyOnWrite),
     executable |-> TRUE,
     referenced |-> HasFlag(get_flags(entry), PTF_Referenced),
     shared |-> HasFlag(get_flags(entry), PTF_Shared)]

\* impl TryFrom<PageFrame> for PageTableEntry: Err when addr does not fit u32
EntryFromFrame_DropsShared(frame) ==
    IF frame.addr >= U32Limit
    THEN Err("()")
    ELSE OkNum(PageTableEntry_new(frame.addr,
              FlagIf(frame.present, PTF_Present)
            + FlagIf(frame.user_mode, PTF_UserSupervisor)
            + FlagIf(frame.writable, PTF_ReadWrite)
            + FlagIf(frame.copy_on_write, PTF_CopyOnWrite)
            + FlagIf(frame.referenced, PTF_Referenced)))
EntryFromFrame(frame) ==
    IF frame.addr >= U32Limit
    THEN Err("()")
    ELSE OkNum(PageTableEntry_new(frame.addr,
              FlagIf(frame.present, PTF_Present)
            + FlagIf(frame.user_mode, PTF_UserSupervisor)
            + FlagIf(frame.writable, PTF_ReadWrite)
            + FlagIf(frame.copy_on_write, PTF_CopyOnWrite)
            + FlagIf(frame.referenced, PTF_Referenced)
            + FlagIf(frame.shared, PTF_Shared)))

(***************************************************************************)
(* State                                                                   *)
(***************************************************************************)
VARIABLES
    frame_set,        \* PageManager.frame_set: bit i set <=> frame i*P in use
    references,       \* PageRefCounter.references: phys -> count
    tables,           \* PageDir.tables, per directory: slot -> Option<TableRef>
    tables_physical,  \* PageDir.tables_physical, per directory: slot -> PageDirEntry
    page_tables,      \* the PageTable objects: table id -> entry index -> entry
    current,          \* per CPU thread: process of task_queue.current(), or NoTask
    halted,           \* the kernel has panicked
    last,             \* the last call: operation, arguments, alloc(), result
    lock,             \* PAGE_MANAGER's mutex: the CPU holding it, or NoHolder
    cpus,             \* per CPU: where it is in a page-manager call, its locals
    hist,             \* the page-manager results that bear on reuse, oldest first
    installed,        \* PAGE_MANAGER.is_some(), KERNEL_PAGE_DIR.is_some()
    cr3,              \* per CPU: its MMU base register, a physical address
    CURRENT_PAGE_DIR, \* the static of that name: Option<&PageDir>
    dropping,         \* per CPU: where it is in a PageDir destructor
    dropped,          \* the directories whose destructor has run to completion
    queue,            \* per CPU thread: TaskQueue.queue, the waiting entries
    urgent_message_queue,  \* per CPU thread: CPUThread.urgent_message_queue
    drain,            \* per CPU thread: where it is in process_urgent_messages
    sent,             \* per CPU thread: the messages whose send returned Ok
    done,             \* per CPU thread: the messages processed, oldest first
    held,             \* per CPU: the locks it holds, in the order it took them
    cow_call,         \* per CPU: where it is in copy_on_write, its locals
    tlb,              \* per CPU: the table entries its TLB caches, by page
    interrupts,       \* per CPU: the interrupt flag of its EFLAGS
    dir_call,         \* per CPU: where it is in set_page or switch_to, locals
    deallocated,      \* per CPU: what the destructor it ran last passed to
                      \* dealloc, in order
    dir_can_free      \* per directory: PageDir.can_free, whether its arrays
                      \* were allocated on the heap

memvars == <<frame_set, references, tables, tables_physical, page_tables>>
dropvars == <<cr3, CURRENT_PAGE_DIR, dropping, dropped>>
msgvars == <<urgent_message_queue, drain, sent, done>>
lockvars == <<held, cow_call>>
hwvars == <<tlb, interrupts, dir_call>>
heapvars == <<deallocated, dir_can_free>>
sysvars == <<installed, cr3, CURRENT_PAGE_DIR, dropping, dropped, queue,
             urgent_message_queue, drain, sent, done, held, cow_call, hwvars, heapvars>>

vars == <<frame_set, references, tables, tables_physical, page_tables,
          current, halted, last, lock, cpus, hist, installed, cr3,
          CURRENT_PAGE_DIR, dropping, dropped, queue, urgent_message_queue,
          drain, sent, done, held, cow_call, hwvars, heapvars>>

\* the kernel state the memory operations work on, as one value
Kernel ==
    [frame_set |-> frame_set, references |-> references, tables |-> tables,
     tables_physical |-> tables_physical, page_tables |-> page_tables]


(***************************************************************************)
(* PageDir (x86 non-PAE): operations on directory d of kernel state k      *)
(***************************************************************************)

\* PageDirectory::get_page for PageDir
get_page(k, d, addr) ==
    LET slot == k.tables[d][TableIdxOf(addr)] IN
    IF IsSome(slot)
    THEN LET entry == k.page_tables[Unwrap(slot).table][EntryIdxOf(addr)] IN
         IF entry = 0 THEN None ELSE Some(FrameFromEntry(entry))
    ELSE None

\* PageDirectory::is_unused for PageDir
is_unused_TableOnly(k, d, addr) == ~IsSome(k.tables[d][TableIdxOf(addr)])
is_unused(k, d, addr) ==
    LET slot == k.tables[d][TableIdxOf(addr)] IN
    IF IsSome(slot)
    THEN k.page_tables[Unwrap(slot).table][EntryIdxOf(addr)] = 0
    ELSE TRUE

\* PageDirectory::virt_to_phys for PageDir (the sub-page offset is dropped)
virt_to_phys(k, d, virt) ==
    LET slot == k.tables[d][TableIdxOf(virt)] IN
    IF IsSome(slot)
    THEN LET entry == k.page_tables[Unwrap(slot).table][EntryIdxOf(virt)] IN
         IF entry = 0 THEN None ELSE Some(get_address(entry))
    ELSE None

\* page tables no directory slot refers to: what alloc_zeroed can hand out
FreeTables(k) ==
    {t \in TableIds :
        \A d \in Dirs, i \in TableIdxs :
            ~(IsSome(k.tables[d][i]) /\ Unwrap(k.tables[d][i]).table = t)}

\* PageDir::add_page_table
add_page_table(k, d, addr, table, physical_addr, can_free) ==
    LET idx == addr \div 4194304      \* addr >> 22
        flags == PDF_Present + PDF_ReadWrite + PDF_UserSupervisor
                 + (IF idx >= (KERNEL_PAGE_DIR_SPLIT \div PAGE_SIZE) \div 1024
                    THEN PDF_Global ELSE 0)
    IN [k EXCEPT
          !.tables_physical[d][idx] = PageDirEntry_new(physical_addr, flags),
          !.tables[d][idx] = Some([table |-> table, can_free |-> can_free])]

\* PageDirectory::set_page for PageDir.  heap_ok: alloc_zeroed of a new page
\* table succeeds.  Returns the new kernel state and the Result.
set_page_GlobalByAddress(k, d, addr0, page, heap_ok) ==
    LET addr == addr0 \div PAGE_SIZE
        table_idx == addr \div 1024
        need == ~IsSome(k.tables[d][table_idx])
        fresh == FreeTables(k)
    IN
    IF need /\ (~heap_ok \/ fresh = {})
    THEN [k |-> k, res |-> Err("AllocError")]
    ELSE
      LET t == CHOOSE x \in fresh : \A y \in fresh : x <= y
          k1 == IF need
                THEN add_page_table(
                       [k EXCEPT !.page_tables[t] = [e \in EntryIdxs |-> 0]],
                       d, addr * PAGE_SIZE, t, TablePhys(t), TRUE)
                ELSE k
          conv == IF IsSome(page) THEN EntryFromFrame(Unwrap(page)) ELSE OkNum(0)
      IN
      IF ~conv.ok
      THEN [k |-> k1, res |-> Err("BadFrame")]
      ELSE
        LET entry0 == conv.num
            entry == IF addr * PAGE_SIZE >= KERNEL_PAGE_DIR_SPLIT
                     THEN set_flags(entry0, OrFlag(get_flags(entry0), PTF_Global))
                     ELSE entry0
            tbl == Unwrap(k1.tables[d][table_idx]).table
        IN [k |-> [k1 EXCEPT !.page_tables[tbl][addr % 1024] = entry],
            res |-> OkUnit]
set_page(k, d, addr0, page, heap_ok) ==
    LET addr == addr0 \div PAGE_SIZE
        table_idx == addr \div 1024
        need == ~IsSome(k.tables[d][table_idx])
        fresh == FreeTables(k)
    IN
    IF need /\ (~heap_ok \/ fresh = {})
    THEN [k |-> k, res |-> Err("AllocError")]
    ELSE
      LET t == CHOOSE x \in fresh : \A y \in fresh : x <= y
          k1 == IF need
                THEN add_page_table(
                       [k EXCEPT !.page_tables[t] = [e \in EntryIdxs |-> 0]],
                       d, addr * PAGE_SIZE, t, TablePhys(t), TRUE)
                ELSE k
          conv == IF IsSome(page) THEN EntryFromFrame(Unwrap(page)) ELSE OkNum(0)
      IN
      IF ~conv.ok
      THEN [k |-> k1, res |-> Err("BadFrame")]
      ELSE
        LET entry0 == conv.num
            \* the comparison is made on the page number, as in the source
            entry == IF addr >= KERNEL_PAGE_DIR_SPLIT
                     THEN set_flags(entry0, OrFlag(get_flags(entry0), PTF_Global))
                     ELSE entry0
            tbl == Unwrap(k1.tables[d][table_idx]).table
        IN [k |-> [k1 EXCEPT !.page_tables[tbl][addr % 1024] = entry],
            res |-> OkUnit]

(***************************************************************************)
(* FrameBitset                                                             *)
(***************************************************************************)
BitSet_set(fs, i) == [fs EXCEPT ![i] = TRUE]
BitSet_clear(fs, i) == [fs EXCEPT ![i] = FALSE]
first_unset(fs) ==
    LET free == {i \in DOMAIN fs : ~fs[i]} IN
    IF free = {} THEN None
    ELSE Some(CHOOSE i \in free : \A j \in free : i <= j)

(***************************************************************************)
(* PageManager                                                             *)
(***************************************************************************)

\* PageManager::alloc_frame
alloc_frame_NoSet(k) ==
    LET idx == first_unset(k.frame_set) IN
    IF IsSome(idx)
    THEN [k |-> k, res |-> OkNum(Unwrap(idx) * PAGE_SIZE)]
    ELSE [k |-> k, res |-> Err("NoAvailableFrames")]
alloc_frame(k) ==
    LET idx == first_unset(k.frame_set) IN
    IF IsSome(idx)
    THEN [k |-> [k EXCEPT !.frame_set = BitSet_set(k.frame_set, Unwrap(idx))],
          res |-> OkNum(Unwrap(idx) * PAGE_SIZE)]
    ELSE [k |-> k, res |-> Err("NoAvailableFrames")]

\* PageManager::alloc_frame_at
alloc_frame_at(k, d, addr, phys, user_mode, writable, executable, heap_ok) ==
    IF is_unused(k, d, addr)
    THEN LET idx == phys \div PAGE_SIZE
             frame == [DefaultFrame EXCEPT !.addr = phys, !.present = TRUE,
                         !.user_mode = user_mode, !.writable = writable,
                         !.executable = executable]
             k1 == [k EXCEPT !.frame_set = BitSet_set(k.frame_set, idx)]
             sp == set_page(k1, d, addr, Some(frame), heap_ok)
         IN  sp        \* dir.set_page(addr, Some(frame))?; Ok(())
    ELSE [k |-> k, res |-> Err("FrameInUse")]

\* PageManager::set_frame_used
set_frame_used(k, addr) ==
    [k EXCEPT !.frame_set = BitSet_set(k.frame_set, addr \div PAGE_SIZE)]

\* PageManager::set_frame_free
set_frame_free(k, addr) ==
    [k EXCEPT !.frame_set = BitSet_clear(k.frame_set, addr \div PAGE_SIZE)]

\* PageManager::free_frame
free_frame_KeepsMapping(k, d, addr) ==
    LET page == get_page(k, d, addr) IN
    IF IsSome(page)
    THEN [k |-> [k EXCEPT !.frame_set =
                   BitSet_clear(k.frame_set, Unwrap(page).addr \div PAGE_SIZE)],
          res |-> OkNum(Unwrap(page).addr)]
    ELSE [k |-> k, res |-> Err("FrameUnused")]
free_frame_NoClear(k, d, addr) ==
    LET page == get_page(k, d, addr) IN
    IF IsSome(page)
    THEN LET sp == set_page(k, d, addr, None, TRUE)
         IN  IF sp.res.ok THEN [k |-> sp.k, res |-> OkNum(Unwrap(page).addr)]
             ELSE sp
    ELSE [k |-> k, res |-> Err("FrameUnused")]
free_frame(k, d, addr) ==
    LET page == get_page(k, d, addr) IN
    IF IsSome(page)
    THEN LET k1 == [k EXCEPT !.frame_set =
                       BitSet_clear(k.frame_set, Unwrap(page).addr \div PAGE_SIZE)]
             sp == set_page(k1, d, addr, None, TRUE)
         IN  IF sp.res.ok THEN [k |-> sp.k, res |-> OkNum(Unwrap(page).addr)]
             ELSE sp
    ELSE [k |-> k, res |-> Err("FrameUnused")]

\* PageManager::sync_from_dir.  The sweep visits the virtual pages in
\* ascending order and sets the bit numbered by the VIRTUAL page.  A page
\* number beyond the end of the bitset either stops the kernel (oob_panics)
\* or is ignored, depending on what BitSet::set does there.
RECURSIVE sync_sweep(_, _, _, _)
sync_sweep(k, d, todo, oob_panics) ==
    IF todo = {} THEN [k |-> k, res |-> OkUnit]
    ELSE
      LET i == CHOOSE x \in todo : \A y \in todo : x <= y
          idx == i \div PAGE_SIZE
      IN
      IF IsSome(get_page(k, d, i))
      THEN IF idx \notin DOMAIN k.frame_set /\ oob_panics
           THEN [k |-> k, res |-> Panic]
           ELSE sync_sweep([k EXCEPT !.frame_set = BitSet_set(k.frame_set, idx)],
                           d, todo \ {i}, oob_panics)
      ELSE sync_sweep(k, d, todo \ {i}, oob_panics)

sync_from_dir(k, d, oob_panics) == sync_sweep(k, d, VirtPages, oob_panics)

(***************************************************************************)
(* PageRefCounter                                                          *)
(***************************************************************************)
MapInsert(f, key, v) == [x \in (DOMAIN f) \cup {key} |-> IF x = key THEN v ELSE f[x]]
MapRemove(f, key) == [x \in (DOMAIN f) \ {key} |-> f[x]]

\* PageRefCounter::get_references_for
get_references_for(k, phys) ==
    IF phys \in DOMAIN k.references THEN k.references[phys] ELSE 0

\* PageRefCounter::add_references
add_references(k, phys, num) ==
    IF phys \in DOMAIN k.references
    THEN [k EXCEPT !.references[phys] = @ + num]
    ELSE [k EXCEPT !.references = MapInsert(k.references, phys, num)]

\* PageRefCounter::add_reference
add_reference(k, phys) == add_references(k, phys, 1)

\* PageRefCounter::remove_reference_no_free
remove_reference_no_free_ToZero(k, phys) ==
    IF phys \in DOMAIN k.references /\ k.references[phys] > 0
    THEN [k EXCEPT !.references[phys] = @ - 1]
    ELSE k
remove_reference_no_free(k, phys) ==
    IF phys \in DOMAIN k.references /\ k.references[phys] > 1
    THEN [k EXCEPT !.references[phys] = @ - 1]
    ELSE k

\* PageRefCounter::remove_reference
remove_reference_KeepsEntry(k, phys) ==
    IF phys \in DOMAIN k.references
    THEN IF k.references[phys] > 1
         THEN [k EXCEPT !.references[phys] = @ - 1]
         ELSE set_frame_free(k, phys)
    ELSE set_frame_free(k, phys)
remove_reference(k, phys) ==
    IF phys \in DOMAIN k.references
    THEN IF k.references[phys] > 1
         THEN [k EXCEPT !.references[phys] = @ - 1]
         ELSE set_frame_free(
                [k EXCEPT !.references = MapRemove(k.references, phys)], phys)
    ELSE set_frame_free(k, phys)

\* PageRefCounter::remove_all_references
remove_all_references(k, phys) ==
    IF phys \in DOMAIN k.references
    THEN [k EXCEPT !.references = MapRemove(k.references, phys)]
    ELSE k

\* free_page.  shared_freed: what shared::free_shared_reference returns
free_page_IgnoresCleanup(k, page, shared_freed) ==
    IF page.shared \/ page.referenced
    THEN remove_reference(k, page.addr)
    ELSE set_frame_free(k, page.addr)
free_page(k, page, shared_freed) ==
    IF page.shared
    THEN IF ~shared_freed THEN remove_reference(k, page.addr) ELSE k
    ELSE IF page.referenced
         THEN remove_reference(k, page.addr)
         ELSE set_frame_free(k, page.addr)


(***************************************************************************)
(* Copy-on-write engine                                                    *)
(***************************************************************************)

\* the test both callers make before copy_on_write
IsCowPage_IgnoresWritable(page) == page.copy_on_write /\ page.referenced
IsCowPage(page) == ~page.writable /\ page.copy_on_write /\ page.referenced

\* the frame copy_on_write maps at addr once the contents are copied
cow_copied_page(page, new) ==
    [page EXCEPT !.addr = new, !.writable = TRUE, !.copy_on_write = FALSE,
       !.referenced = FALSE]

\* the frame copy_on_write maps at addr when nothing else references it
cow_unshared_page_ClearsFlags(page) ==
    [page EXCEPT !.writable = TRUE, !.copy_on_write = FALSE,
       !.referenced = FALSE]
cow_unshared_page(page) == [page EXCEPT !.writable = TRUE]

\* copy_on_write(page_dir, addr, page).
\*   copied_area: the pointer alloc() returned (NullPtr when it failed; the
\*                source does not test it)
\*   fault:       the write through a null copied_area traps (kernel panic)
\*                instead of landing in page 0
\*   heap_ok, shared_freed: as in set_page and free_page
copy_on_write(k, d, addr, page, copied_area, fault, heap_ok, shared_freed) ==
    IF get_references_for(k, page.addr) > 1
    THEN
      IF copied_area = NullPtr /\ fault
      THEN [k |-> k, res |-> Panic]
      ELSE
        LET new == virt_to_phys(k, d, copied_area) IN
        IF ~IsSome(new)
        THEN [k |-> k, res |-> Err("BadAddress")]
        ELSE
          LET page1 == cow_copied_page(page, Unwrap(new))
              sp1 == set_page(k, d, addr, Some(page1), heap_ok)
          IN
          IF ~sp1.res.ok
          THEN sp1
          ELSE
            LET af == alloc_frame(sp1.k) IN
            IF ~af.res.ok
            THEN \* put the original page back, then report the error
                 LET sp2 == set_page(sp1.k, d, addr, Some(page), heap_ok) IN
                 IF sp2.res.ok THEN [k |-> sp2.k, res |-> af.res]
                 ELSE [k |-> sp2.k, res |-> Panic]
            ELSE
              LET new_page == [DefaultFrame EXCEPT !.addr = af.res.num,
                                 !.present = TRUE, !.writable = TRUE]
                  sp3 == set_page(af.k, d, copied_area, Some(new_page), heap_ok)
              IN
              IF ~sp3.res.ok
              THEN [k |-> sp3.k, res |-> Panic]
              ELSE [k |-> free_page(sp3.k, page, shared_freed),
                    res |-> OkFrame(new_page)]
    ELSE
      \* not referenced by anything else: only writable is updated
      LET page1 == cow_unshared_page(page)
          sp == set_page(k, d, addr, Some(page1), heap_ok)
      IN IF sp.res.ok THEN [k |-> sp.k, res |-> OkFrame(page1)] ELSE sp

\* try_copy_on_write(thread, addr); cur is thread.task_queue.current()
try_copy_on_write(k, cur, addr, copied_area, fault, heap_ok, shared_freed) ==
    IF cur = NoTask \/ cur \notin Procs
    THEN [k |-> k, res |-> Err("NoSuchProcess")]
    ELSE
      LET page == get_page(k, cur, addr) IN
      IF ~IsSome(page)
      THEN [k |-> k, res |-> Err("BadAddress")]
      ELSE
        LET aligned == (addr \div PAGE_SIZE) * PAGE_SIZE IN
        IF IsCowPage(Unwrap(page))
        THEN LET c == copy_on_write(k, cur, aligned, Unwrap(page), copied_area,
                                    fault, heap_ok, shared_freed)
             IN  IF c.res.ok THEN [k |-> c.k, res |-> OkBool(TRUE)]
                 ELSE IF c.res = Panic THEN c
                 ELSE [k |-> c.k, res |-> Err(ErrnoFrom(c.res.err))]
        ELSE [k |-> k, res |-> OkBool(FALSE)]

(***************************************************************************)
(* Transient mapper: map_memory and map_memory_from                        *)
(***************************************************************************)

\* the frame map_memory maps at a page of its buffer
MappedFrame(phys) ==
    [DefaultFrame EXCEPT !.addr = phys, !.present = TRUE, !.writable = TRUE]

SeqRange(q) == {q[j] : j \in 1 .. Len(q)}

\* map_memory: "remap all pages in region", from the j-th address on
RECURSIVE remap_pages(_, _, _, _, _, _, _)
remap_pages(k, d, ptr, addresses, existing_phys, j, heap_ok) ==
    IF j > Len(addresses) THEN [k |-> k, res |-> OkUnit]
    ELSE IF addresses[j] \in SeqRange(existing_phys)
    THEN [k |-> k, res |-> Panic]     \* trampling on other directory's memory
    ELSE
      LET sp == set_page(k, d, ptr + (j - 1) * PAGE_SIZE,
                         Some(MappedFrame(addresses[j])), heap_ok)
      IN IF ~sp.res.ok THEN [k |-> sp.k, res |-> Panic]
         ELSE remap_pages(sp.k, d, ptr, addresses, existing_phys, j + 1, heap_ok)

\* map_memory: "map pages back to their original addresses"
restore_pages_Skipped(k, d, ptr, existing_phys, j, heap_ok) ==
    [k |-> k, res |-> OkUnit]
RECURSIVE restore_pages(_, _, _, _, _, _)
restore_pages(k, d, ptr, existing_phys, j, heap_ok) ==
    IF j > Len(existing_phys) THEN [k |-> k, res |-> OkUnit]
    ELSE
      LET sp == set_page(k, d, ptr + (j - 1) * PAGE_SIZE,
                         Some(MappedFrame(existing_phys[j])), heap_ok)
      IN IF ~sp.res.ok THEN [k |-> sp.k, res |-> Panic]
         ELSE restore_pages(sp.k, d, ptr, existing_phys, j + 1, heap_ok)

\* map_memory(map_into, addresses, op).
\*   ptr:        what alloc() of the buffer returned (NullPtr: it failed)
\*   reserve_ok: existing_phys.try_reserve_exact succeeded
\* ran: how many times op was called
map_memory(k, d, addresses, ptr, reserve_ok, heap_ok) ==
    LET n == Len(addresses) IN
    IF ptr = NullPtr
    THEN [k |-> k, res |-> Err("AllocError"), ran |-> 0]
    ELSE IF n > 0 /\ ~reserve_ok
    THEN [k |-> k, res |-> Err("AllocError"), ran |-> 0]
    ELSE
      LET existing == [j \in 1 .. n |->
                         virt_to_phys(k, d, ptr + (j - 1) * PAGE_SIZE)]
      IN
      IF \E j \in 1 .. n : ~IsSome(existing[j])
      THEN [k |-> k, res |-> Err("BadAddress"), ran |-> 0]
      ELSE
        LET existing_phys == [j \in 1 .. n |-> Unwrap(existing[j])]
            remap == remap_pages(k, d, ptr, addresses, existing_phys, 1, heap_ok)
        IN
        IF ~remap.res.ok
        THEN [k |-> remap.k, res |-> Panic, ran |-> 0]
        ELSE
          LET back == restore_pages(remap.k, d, ptr, existing_phys, 1, heap_ok)
          IN IF ~back.res.ok
             THEN [k |-> back.k, res |-> Panic, ran |-> 1]
             ELSE [k |-> back.k, res |-> OkUnit, ran |-> 1]

\* map_memory_from: the aligned start and end of the loop over the region
region_start(addr) ==
    IF addr % PAGE_SIZE # 0 THEN (addr \div PAGE_SIZE) * PAGE_SIZE ELSE addr
region_end(addr, len) ==
    IF (addr + len) % PAGE_SIZE # 0
    THEN ((addr + len) \div PAGE_SIZE) * PAGE_SIZE + (PAGE_SIZE - 1)
    ELSE addr + len
\* the pages `for i in (start..=end).step_by(page_size)` visits
region_pages(addr, len) ==
    {region_start(addr) + j * PAGE_SIZE :
        j \in 0 .. ((region_end(addr, len) - region_start(addr)) \div PAGE_SIZE)}

\* map_memory_from: "get physical addresses of this region", from page i on.
\* copy_on_write is called with addr, the start of the region.
RECURSIVE region_addresses(_, _, _, _, _, _, _, _, _, _)
\* the arm of the loop for a copy-on-write page; c: what copy_on_write returned
region_copied(c, from, addr, i, end, acc, copied_area, fault, heap_ok, shared_freed) ==
    IF ~c.res.ok
    THEN [k |-> c.k, res |-> c.res, addresses |-> acc,
          stage |-> "copy_on_write"]
    ELSE region_addresses(c.k, from, addr, i + PAGE_SIZE, end,
             Append(acc, Unwrap(c.res.frame).addr), copied_area, fault,
             heap_ok, shared_freed)

region_addresses(k, from, addr, i, end, acc, copied_area, fault, heap_ok, shared_freed) ==
    IF i > end THEN [k |-> k, res |-> OkUnit, addresses |-> acc, stage |-> "map"]
    ELSE
      LET got == get_page(k, from, i) IN
      IF ~IsSome(got)
      THEN [k |-> k, res |-> Err("BadAddress"), addresses |-> acc,
            stage |-> "region"]
      ELSE
        IF IsCowPage(Unwrap(got))
        THEN region_copied(
               copy_on_write(k, from, addr, Unwrap(got), copied_area, fault,
                             heap_ok, shared_freed),
               from, addr, i, end, acc, copied_area, fault, heap_ok,
               shared_freed)
        ELSE region_addresses(k, from, addr, i + PAGE_SIZE, end,
                 Append(acc, Unwrap(got).addr), copied_area, fault, heap_ok,
                 shared_freed)

\* map_memory_from: "map the memory"; m: what map_memory returned
region_mapped(m, addresses) ==
    [k |-> m.k, res |-> m.res, ran |-> m.ran, addresses |-> addresses,
     stage |-> "map"]

\* map_memory_from after the loop over the region; g: what the loop produced
region_map(g, map_into, ptr, reserve_ok, heap_ok) ==
    IF ~g.res.ok
    THEN [k |-> g.k, res |-> g.res, ran |-> 0, addresses |-> g.addresses,
          stage |-> g.stage]
    ELSE region_mapped(
           map_memory(g.k, map_into, g.addresses, ptr, reserve_ok, heap_ok),
           g.addresses)

\* map_memory_from(map_into, from, addr, len, op).
\*   reserve0_ok: addresses.try_reserve_exact succeeded
\*   copied_area, fault, shared_freed: as in copy_on_write
\*   ptr, reserve_ok, heap_ok: as in map_memory
map_memory_from(k, map_into, from, addr, len, reserve0_ok, copied_area, fault, shared_freed, ptr, reserve_ok, heap_ok) ==
    IF ~(addr + len > addr)
    THEN [k |-> k, res |-> Panic, ran |-> 0, addresses |-> <<>>,
          stage |-> "assert"]
    ELSE
      IF (region_end(addr, len) - region_start(addr)) \div PAGE_SIZE > 0
         /\ ~reserve0_ok
      THEN [k |-> k, res |-> Err("AllocError"), ran |-> 0, addresses |-> <<>>,
            stage |-> "reserve"]
      ELSE region_map(
             region_addresses(k, from, addr, region_start(addr),
                              region_end(addr, len), <<>>, copied_area, fault,
                              heap_ok, shared_freed),
             map_into, ptr, reserve_ok, heap_ok)

(***************************************************************************)
(* Address translation through the trait, find_hole and validate_region    *)
(***************************************************************************)

\* a | b on naturals
RECURSIVE BitOr(_, _)
BitOr(a, b) ==
    IF a = 0 THEN b
    ELSE IF b = 0 THEN a
    ELSE (IF a % 2 = 1 \/ b % 2 = 1 THEN 1 ELSE 0)
         + 2 * BitOr(a \div 2, b \div 2)

\* the default method PageDirectory::virt_to_phys, over PageDir's get_page:
\* page_addr = virt & !(PAGE_SIZE - 1), offset = virt & (PAGE_SIZE - 1)
PageDirectory_virt_to_phys(k, d, virt) ==
    LET page_addr == (virt \div PAGE_SIZE) * PAGE_SIZE
        offset == virt % PAGE_SIZE
        page == get_page(k, d, page_addr)
    IN IF IsSome(page) THEN Some(BitOr(Unwrap(page).addr, offset)) ELSE None

\* the loop of find_hole from addr on; size is the rounded size and
\* hole_start the Option the loop carries
RECURSIVE find_hole_scan_KeepsStart(_, _, _, _, _, _, _)
find_hole_scan_KeepsStart(k, d, start, end, size, addr, hole_start) ==
    IF addr >= end THEN None
    ELSE IF is_unused(k, d, addr)
    THEN IF IsSome(hole_start)
         THEN IF addr - Unwrap(hole_start) >= size
              THEN hole_start
              ELSE find_hole_scan_KeepsStart(k, d, start, end, size,
                                             addr + PAGE_SIZE, hole_start)
         ELSE find_hole_scan_KeepsStart(k, d, start, end, size,
                 addr + PAGE_SIZE,
                 IF addr >= start THEN Some(addr) ELSE hole_start)
    ELSE find_hole_scan_KeepsStart(k, d, start, end, size, addr + PAGE_SIZE,
                                   hole_start)
RECURSIVE find_hole_scan(_, _, _, _, _, _, _)
find_hole_scan(k, d, start, end, size, addr, hole_start) ==
    IF addr >= end THEN None
    ELSE IF is_unused(k, d, addr)
    THEN IF IsSome(hole_start)
         THEN IF addr - Unwrap(hole_start) >= size
              THEN hole_start
              ELSE find_hole_scan(k, d, start, end, size, addr + PAGE_SIZE,
                                  hole_start)
         ELSE find_hole_scan(k, d, start, end, size, addr + PAGE_SIZE,
                             IF addr >= start THEN Some(addr) ELSE hole_start)
    ELSE find_hole_scan(k, d, start, end, size, addr + PAGE_SIZE, None)

\* find_hole(page_dir, start, end, size)
find_hole(k, d, start, end, size) ==
    IF start % PAGE_SIZE # 0 \/ end % PAGE_SIZE # 0
    THEN Panic
    ELSE OkOpt(find_hole_scan(k, d, start, end,
                              (size \div PAGE_SIZE) * PAGE_SIZE + PAGE_SIZE,
                              start, None))

\* the loop of validate_region from addr on
RECURSIVE validate_scan(_, _, _, _)
validate_scan(k, d, addr, end) ==
    IF addr >= end THEN TRUE
    ELSE IF ~IsSome(get_page(k, d, addr)) THEN FALSE
    ELSE validate_scan(k, d, addr + PAGE_SIZE, end)

\* validate_region(page_dir, start, len): start is rounded down first, and
\* end is computed from the rounded start
validate_region(k, d, start0, len) ==
    LET start == (start0 \div PAGE_SIZE) * PAGE_SIZE
        end == ((start + len) \div PAGE_SIZE) * PAGE_SIZE + PAGE_SIZE
    IN validate_scan(k, d, start, end)

(***************************************************************************)
(* Actions: one call of an operation, atomically                           *)
(***************************************************************************)

\* what alloc() of one page may return: a heap page, or null
AllocOutcomes ==
    {[ptr |-> x, fault |-> FALSE] : x \in HeapPages}
    \cup {[ptr |-> NullPtr, fault |-> b] : b \in BOOLEAN}

\* addresses a fault can report: one inside page 0, and the start of page 1
FaultAddrs == {4, PAGE_SIZE}

\* alloc() is called only when the frame of the page has other references
AllocOutcomesFor(k, page) ==
    IF IsSome(page) /\ get_references_for(k, Unwrap(page).addr) > 1
    THEN AllocOutcomes
    ELSE {[ptr |-> NullPtr, fault |-> FALSE]}

\* alloc field: what alloc() did in the call ("none": it was not called);
\* phys, user_mode, writable: the further arguments of alloc_frame_at;
\* page: the Option<PageFrame> argument of set_page, the frame of free_page;
\* freed: what free_shared_reference returned; from, len: the source
\* directory and length of map_memory_from; addresses: the physical addresses
\* handed to map_memory; buf: the buffer map_memory allocated; ran: how many
\* times op ran; stage: the step of map_memory_from that returned; end: the
\* end argument of find_hole; for insert, addr and len are the process and
\* the thread of the id, phys the full priority; manager, dir: the argument
\* of set_page_manager
\* and of set_kernel_page_dir
Call(op, d, addr, alloc, res) ==
    [op |-> op, d |-> d, addr |-> addr, alloc |-> alloc, res |-> res,
     phys |-> 0, user_mode |-> FALSE, writable |-> FALSE,
     page |-> <<>>, freed |-> FALSE, from |-> 0, len |-> 0,
     addresses |-> <<>>, buf |-> 0, ran |-> 0, stage |-> "", end |-> 0,
     manager |-> <<>>, dir |-> <<>>]

AllocTag(k, page, a) ==
    IF ~(IsSome(page) /\ IsCowPage(Unwrap(page))
         /\ get_references_for(k, Unwrap(page).addr) > 1) THEN "none"
    ELSE IF a.ptr = NullPtr THEN "null" ELSE "ok"

\* install kernel state k and record the call
Commit(k, call) ==
    /\ frame_set' = k.frame_set
    /\ references' = k.references
    /\ tables' = k.tables
    /\ tables_physical' = k.tables_physical
    /\ page_tables' = k.page_tables
    /\ halted' = (call.res = Panic)
    /\ last' = call
    /\ UNCHANGED <<current, lock, cpus, hist>>
    /\ UNCHANGED sysvars

\* a caller that found the page copy-on-write calls copy_on_write
CopyOnWrite(d, v, heap_ok, shared_freed) ==
    /\ ~halted
    /\ IsSome(get_page(Kernel, d, v))
    /\ IsCowPage(Unwrap(get_page(Kernel, d, v)))
    /\ \E a \in AllocOutcomesFor(Kernel, get_page(Kernel, d, v)) :
         LET page == Unwrap(get_page(Kernel, d, v))
             r == copy_on_write(Kernel, d, v, page, a.ptr, a.fault, heap_ok,
                                shared_freed)
         IN Commit(r.k, Call("copy_on_write", d, v,
                             AllocTag(Kernel, Some(page), a), r.res))

\* a page fault at addr on CPU thread t
TryCopyOnWrite(t, addr, heap_ok, shared_freed) ==
    /\ ~halted
    /\ LET page == IF current[t] \in Procs
                   THEN get_page(Kernel, current[t], addr) ELSE None
       IN \E a \in AllocOutcomesFor(Kernel, page) :
         LET r == try_copy_on_write(Kernel, current[t], addr, a.ptr, a.fault,
                                    heap_ok, shared_freed)
         IN Commit(r.k, Call("try_copy_on_write", t, addr,
                             AllocTag(Kernel, page, a), r.res))

FreePage(d, v, shared_freed) ==
    /\ ~halted
    /\ IsSome(get_page(Kernel, d, v))
    /\ LET page == Unwrap(get_page(Kernel, d, v)) IN
       Commit(free_page(Kernel, page, shared_freed),
              [Call("free_page", d, v, "none", OkUnit)
                 EXCEPT !.page = Some(page), !.freed = shared_freed])

RemoveReference(phys) ==
    /\ ~halted
    /\ Commit(remove_reference(Kernel, phys),
              Call("remove_reference", KernelDir, phys, "none", OkUnit))

RemoveReferenceNoFree(phys) ==
    /\ ~halted
    /\ Commit(remove_reference_no_free(Kernel, phys),
              Call("remove_reference_no_free", KernelDir, phys, "none",
                   OkUnit))

AllocFrame ==
    /\ ~halted
    /\ LET r == alloc_frame(Kernel) IN
       Commit(r.k, Call("alloc_frame", KernelDir, 0, "none", r.res))

AllocFrameAt(d, v, phys, user_mode, writable, executable, heap_ok) ==
    /\ ~halted
    /\ LET r == alloc_frame_at(Kernel, d, v, phys, user_mode, writable,
                               executable, heap_ok)
       IN Commit(r.k, [Call("alloc_frame_at", d, v, "none", r.res)
                         EXCEPT !.phys = phys, !.user_mode = user_mode,
                                !.writable = writable])

FreeFrame(d, v) ==
    /\ ~halted
    /\ LET r == free_frame(Kernel, d, v) IN
       Commit(r.k, Call("free_frame", d, v, "none", r.res))

SetFrameUsed(phys) ==
    /\ ~halted
    /\ Commit(set_frame_used(Kernel, phys),
              Call("set_frame_used", KernelDir, phys, "none", OkUnit))

SetFrameFree(phys) ==
    /\ ~halted
    /\ Commit(set_frame_free(Kernel, phys),
              Call("set_frame_free", KernelDir, phys, "none", OkUnit))

AddReference(phys) ==
    /\ ~halted
    /\ Commit(add_reference(Kernel, phys),
              Call("add_reference", KernelDir, phys, "none", OkUnit))

\* free_page(page) on a frame descriptor the caller holds
FreePageFrame(phys, shared, referenced, shared_freed) ==
    /\ ~halted
    /\ LET page == [DefaultFrame EXCEPT !.addr = phys, !.present = TRUE,
                      !.shared = shared, !.referenced = referenced]
       IN Commit(free_page(Kernel, page, shared_freed),
                 [Call("free_page", KernelDir, phys, "none", OkUnit)
                    EXCEPT !.page = Some(page), !.freed = shared_freed])

\* dir.set_page(v, page)
SetPage(d, v, page, heap_ok) ==
    /\ ~halted
    /\ LET r == set_page(Kernel, d, v, page, heap_ok) IN
       Commit(r.k, [Call("set_page", d, v, "none", r.res) EXCEPT !.page = page])

SyncFromDir(d, oob_panics) ==
    /\ ~halted
    /\ LET r == sync_from_dir(Kernel, d, oob_panics) IN
       Commit(r.k, Call("sync_from_dir", d, 0, "none", r.res))

\* the heap window, and the buffers of n pages alloc() can return from it
HeapEnd == HEAP_START + NumHeapPages * PAGE_SIZE
BufferOutcomes(n) ==
    {NullPtr} \cup {x \in HeapPages : x + n * PAGE_SIZE <= HeapEnd}

MapMemory(d, addresses, ptr, reserve_ok) ==
    /\ ~halted
    /\ ptr \in BufferOutcomes(Len(addresses))
    /\ LET r == map_memory(Kernel, d, addresses, ptr, reserve_ok, TRUE) IN
       Commit(r.k, [Call("map_memory", d, 0, "none", r.res)
                      EXCEPT !.addresses = addresses, !.buf = ptr,
                             !.ran = r.ran])

\* the regions map_memory_from is called on: start and length in bytes
MapRegions ==
    {<<0, 1>>, <<0, PAGE_SIZE>>, <<0, PAGE_SIZE + 1>>, <<4, PAGE_SIZE - 4>>,
     <<4, PAGE_SIZE>>, <<PAGE_SIZE, 8>>}

MapMemoryFrom(d, from, region, reserve0_ok, a, ptr, reserve_ok) ==
    /\ ~halted
    /\ d # from
    /\ ptr \in BufferOutcomes(Cardinality(region_pages(region[1], region[2])))
    /\ LET r == map_memory_from(Kernel, d, from, region[1], region[2],
                                reserve0_ok, a.ptr, a.fault, FALSE, ptr,
                                reserve_ok, TRUE)
       IN Commit(r.k, [Call("map_memory_from", d, region[1], "none", r.res)
                         EXCEPT !.from = from, !.len = region[2],
                                !.addresses = r.addresses, !.buf = ptr,
                                !.ran = r.ran, !.stage = r.stage])

\* dir.virt_to_phys(virt) on the hardware directory
VirtToPhys(d, virt) ==
    /\ ~halted
    /\ Commit(Kernel, Call("virt_to_phys", d, virt, "none",
                           OkOpt(virt_to_phys(Kernel, d, virt))))

FindHole(d, start, end, size) ==
    /\ ~halted
    /\ Commit(Kernel, [Call("find_hole", d, start, "none",
                            find_hole(Kernel, d, start, end, size))
                         EXCEPT !.end = end, !.len = size])

ValidateRegion(d, start, len) ==
    /\ ~halted
    /\ Commit(Kernel, [Call("validate_region", d, start, "none",
                            OkBool(validate_region(Kernel, d, start, len)))
                         EXCEPT !.len = len])

(***************************************************************************)
(* Initial states: the address spaces after a fork.  Page i of the user    *)
(* window is unmapped, private to process 1, or shared copy-on-write by    *)
(* processes 1 and 2 with reference count 2.  The heap window is mapped    *)
(* by the kernel's table, which every directory shares.                    *)
(***************************************************************************)
Layouts == [UserIdx -> {"unmapped", "private", "cow"}]

HeapEntry(i) == PageTableEntry_new(i * PAGE_SIZE, PTF_Present + PTF_ReadWrite)
UserFrame(i) == (NumHeapPages + i) * PAGE_SIZE
CowEntry(i) ==
    PageTableEntry_new(UserFrame(i),
        PTF_Present + PTF_UserSupervisor + PTF_CopyOnWrite + PTF_Referenced)
PrivateEntry(i) ==
    PageTableEntry_new(UserFrame(i),
        PTF_Present + PTF_UserSupervisor + PTF_ReadWrite)

InitTable(lay, t) ==
    [e \in EntryIdxs |->
        IF t = KernelTable
        THEN IF e < NumHeapPages THEN HeapEntry(e) ELSE 0
        ELSE IF e \notin UserIdx THEN 0
        ELSE IF lay[e] = "cow" THEN CowEntry(e)
        ELSE IF lay[e] = "private" /\ t = 1 THEN PrivateEntry(e)
        ELSE 0]

\* a process has its user table iff it maps a user page
HasUserTable(lay, p) ==
    \E i \in DOMAIN lay : lay[i] = "cow" \/ (lay[i] = "private" /\ p = 1)

InitSlot(lay, d, i) ==
    IF i = TableIdxOf(HEAP_START)
    THEN Some([table |-> KernelTable, can_free |-> FALSE])
    ELSE IF d \in Procs /\ HasUserTable(lay, d)
         THEN Some([table |-> d, can_free |-> TRUE])
         ELSE None

\* the frames the boot code and the mappings of the layout have taken
BootFrames(lay) ==
    [i \in FrameIdx |->
        \/ i < NumHeapPages
        \/ (i - NumHeapPages \in DOMAIN lay /\ lay[i - NumHeapPages] # "unmapped")]

\* fs: the frame bitset; count: the reference count of each shared frame
InitMemory(lay, fs, count) ==
    /\ frame_set = fs
    /\ references = [p \in {UserFrame(i) : i \in {j \in DOMAIN lay : lay[j] = "cow"}}
                       |-> count]
    /\ tables = [d \in Dirs |-> [i \in TableIdxs |-> InitSlot(lay, d, i)]]
    /\ tables_physical =
         [d \in Dirs |-> [i \in TableIdxs |->
            IF IsSome(InitSlot(lay, d, i))
            THEN PageDirEntry_new(TablePhys(Unwrap(InitSlot(lay, d, i)).table),
                   PDF_Present + PDF_ReadWrite + PDF_UserSupervisor
                   + (IF i >= (KERNEL_PAGE_DIR_SPLIT \div PAGE_SIZE) \div 1024
                      THEN PDF_Global ELSE 0))
            ELSE 0]]
    /\ page_tables = [t \in TableIds |-> InitTable(lay, t)]

NoCall == Call("init", KernelDir, 0, "none", OkUnit)

NoHolder == 0
CPUs == {1, 2}
\* got: how many times the CPU was handed each frame and has not released it
IdleCpu == [pc |-> "idle", op |-> "none", arg |-> 0, idx |-> None,
            has_warned |-> FALSE, got |-> [f \in Frames |-> 0]]
\* no CPU is inside a page-manager call
ManagerIdle ==
    /\ lock = NoHolder
    /\ cpus = [t \in CPUs |-> IdleCpu]
    /\ hist = <<>>

\* the CPU threads that drain urgent messages and schedule tasks
DrainThreads == {1, 2}

\* both singletons are installed
BootDone == installed = [PAGE_MANAGER |-> TRUE, KERNEL_PAGE_DIR |-> TRUE]

\* PageDir.tables_physical_addr of directory d
DirPhys(d) == (2048 + d) * PAGE_SIZE

\* every CPU has the kernel's directory loaded and no destructor runs
NoDrop == [pc |-> "idle", dir |-> KernelDir, todo |-> {}]
DropIdle ==
    /\ cr3 = [c \in CPUs |-> DirPhys(KernelDir)]
    /\ CURRENT_PAGE_DIR = Some(KernelDir)
    /\ dropping = [c \in CPUs |-> NoDrop]
    /\ dropped = {}

\* no task waits for CPU time
QueueIdle == queue = [t \in DrainThreads |-> <<>>]

\* no urgent message was sent and no thread is draining
NoMessage == [kind |-> "none", process_id |-> 0, addr |-> 0]
IdleDrain == [pc |-> "idle", entry |-> NoMessage, checked |-> NoTask]
MsgIdle ==
    /\ urgent_message_queue = [t \in DrainThreads |-> <<>>]
    /\ drain = [t \in DrainThreads |-> IdleDrain]
    /\ sent = [t \in DrainThreads |-> <<>>]
    /\ done = [t \in DrainThreads |-> <<>>]

\* no CPU is inside copy_on_write and no lock is held
IdleCow ==
    [pc |-> "idle", d |-> KernelDir, addr |-> 0, page |-> DefaultFrame,
     original_page |-> DefaultFrame, copied_area |-> NullPtr,
     res |-> OkUnit]
LockIdle ==
    /\ held = [c \in CPUs |-> <<>>]
    /\ cow_call = [c \in CPUs |-> IdleCow]

\* the TLBs are empty, interrupts are enabled, no CPU is inside a call on a
\* hardware directory and nothing was deallocated; the kernel's directory
\* comes from bump_allocate (from_allocated), the others from PageDir::new
IdleDirCall ==
    [pc |-> "idle", dir |-> KernelDir, addr |-> 0, flags |-> FALSE,
     later |-> FALSE]
HwIdle ==
    /\ tlb = [c \in CPUs |-> [v \in VirtPages |-> None]]
    /\ interrupts = [c \in CPUs |-> TRUE]
    /\ dir_call = [c \in CPUs |-> IdleDirCall]
    /\ deallocated = [c \in CPUs |-> <<>>]
    /\ dir_can_free = [d \in Dirs |-> d # KernelDir]

ConcIdle ==
    /\ ManagerIdle
    /\ BootDone
    /\ DropIdle
    /\ QueueIdle
    /\ MsgIdle
    /\ LockIdle
    /\ HwIdle

(***************************************************************************)
(* SpecCow: the copy-on-write engine and the disposal of pages             *)
(***************************************************************************)
InitCow ==
    /\ \E lay \in Layouts : InitMemory(lay, BootFrames(lay), 2)
    /\ current = [t \in Threads |-> RunningOn(t)]
    /\ halted = FALSE
    /\ last = NoCall
    /\ ConcIdle

NextCow ==
    \/ \E d \in Procs, v \in UserPages : CopyOnWrite(d, v, TRUE, FALSE)
    \/ \E t \in Threads, addr \in FaultAddrs : TryCopyOnWrite(t, addr, TRUE, FALSE)
    \/ \E d \in Procs, v \in UserPages : FreePage(d, v, FALSE)
    \/ \E phys \in DOMAIN references : RemoveReference(phys)
    \/ \E phys \in DOMAIN references : RemoveReferenceNoFree(phys)

SpecCow == InitCow /\ [][NextCow]_vars

(***************************************************************************)
(* Spec: one call of a page-manager, reference-counter or copy-on-write    *)
(* operation from each state of a family: a layout of the address spaces,  *)
(* any frame bitset that has the bits of the mapped frames set, and shared *)
(* frames with reference count 1 or 2.                                     *)
(***************************************************************************)
Init ==
    /\ \E lay \in Layouts, fs \in [FrameIdx -> BOOLEAN], count \in {1, 2} :
          /\ \A i \in FrameIdx : BootFrames(lay)[i] => fs[i]
          /\ InitMemory(lay, fs, count)
    /\ current = [t \in Threads |-> RunningOn(t)]
    /\ halted = FALSE
    /\ last = NoCall
    /\ ConcIdle

\* no call has been made yet
Ready == last = NoCall

Next ==
    \/ Ready /\ AllocFrame
    \/ Ready /\ \E d \in Procs, v \in VirtPages, phys \in Frames,
                   user_mode \in BOOLEAN, writable \in BOOLEAN,
                   executable \in BOOLEAN, heap_ok \in BOOLEAN :
                   AllocFrameAt(d, v, phys, user_mode, writable, executable,
                                heap_ok)
    \/ Ready /\ \E d \in Procs, v \in UserPages : FreeFrame(d, v)
    \/ Ready /\ \E phys \in Frames : SetFrameUsed(phys)
    \/ Ready /\ \E phys \in Frames : SetFrameFree(phys)
    \/ Ready /\ \E phys \in Frames : AddReference(phys)
    \/ Ready /\ \E phys \in Frames : RemoveReference(phys)
    \/ Ready /\ \E phys \in Frames : RemoveReferenceNoFree(phys)
    \/ Ready /\ \E d \in Procs, v \in UserPages : FreePage(d, v, FALSE)
    \/ Ready /\ \E d \in Procs, v \in UserPages : CopyOnWrite(d, v, TRUE, FALSE)
    \/ Ready /\ \E phys \in Frames, shared \in BOOLEAN, referenced \in BOOLEAN,
                   shared_freed \in BOOLEAN :
                   FreePageFrame(phys, shared, referenced, shared_freed)

Spec == Init /\ [][Next]_vars

(***************************************************************************)
(* SpecMap: the directory interface, the boot-time sweep and the transient *)
(* mapper.  A set_page(v, Some(f)) may be followed by set_page(v, None); a  *)
(* set_frame_free may be followed by sync_from_dir.  The directory of      *)
(* process 2 may be stale: it was created before the kernel added the page *)
(* table of the heap window and has not been given that table yet.         *)
(***************************************************************************)
StaleSlot(lay, d, i, stale) ==
    IF stale /\ d = 2 /\ i = TableIdxOf(HEAP_START) THEN None
    ELSE InitSlot(lay, d, i)

InitMap ==
    /\ \E lay \in Layouts, count \in {1, 2}, stale \in BOOLEAN :
          /\ frame_set = BootFrames(lay)
          /\ references =
                [p \in {UserFrame(i) : i \in {j \in DOMAIN lay : lay[j] = "cow"}}
                   |-> count]
          /\ tables = [d \in Dirs |-> [i \in TableIdxs |->
                                         StaleSlot(lay, d, i, stale)]]
          /\ tables_physical =
                [d \in Dirs |-> [i \in TableIdxs |->
                   IF IsSome(StaleSlot(lay, d, i, stale))
                   THEN PageDirEntry_new(
                          TablePhys(Unwrap(StaleSlot(lay, d, i, stale)).table),
                          PDF_Present + PDF_ReadWrite + PDF_UserSupervisor
                          + (IF i >= (KERNEL_PAGE_DIR_SPLIT \div PAGE_SIZE) \div 1024
                             THEN PDF_Global ELSE 0))
                   ELSE 0]]
          /\ page_tables = [t \in TableIds |-> InitTable(lay, t)]
    /\ current = [t \in Threads |-> RunningOn(t)]
    /\ halted = FALSE
    /\ last = NoCall
    /\ ConcIdle

\* the frames handed to set_page: present frames of the window, the default
\* (absent) frame, a frame whose address does not fit a table entry, and a
\* frame with every flag but writable set
SetPageFrames ==
    {[DefaultFrame EXCEPT !.addr = p, !.present = TRUE, !.writable = w] :
        p \in {0, (NumFrames - 1) * PAGE_SIZE}, w \in BOOLEAN}
    \cup {DefaultFrame, [DefaultFrame EXCEPT !.addr = U32Limit, !.present = TRUE]}
    \cup {[DefaultFrame EXCEPT !.addr = PAGE_SIZE, !.present = TRUE,
              !.user_mode = TRUE, !.copy_on_write = TRUE, !.referenced = TRUE,
              !.shared = TRUE]}

\* the address lists handed to map_memory
AddressLists ==
    {<<>>} \cup {<<p>> : p \in Frames} \cup {<<p, q>> : p, q \in Frames}

NextMap ==
    \/ Ready /\ \E d \in Dirs, v \in VirtPages, f \in SetPageFrames,
                   heap_ok \in BOOLEAN : SetPage(d, v, Some(f), heap_ok)
    \/ /\ last.op = "set_page" /\ IsSome(last.page)
       /\ SetPage(last.d, last.addr, None, TRUE)
    \/ Ready /\ \E phys \in Frames : SetFrameFree(phys)
    \/ /\ Ready \/ last.op = "set_frame_free"
       /\ \E d \in Dirs, oob_panics \in BOOLEAN : SyncFromDir(d, oob_panics)
    \/ Ready /\ \E d \in Dirs, addresses \in AddressLists,
                   ptr \in HeapPages \cup {NullPtr}, reserve_ok \in BOOLEAN :
                   MapMemory(d, addresses, ptr, reserve_ok)
    \/ Ready /\ \E d \in Dirs, from \in Procs, region \in MapRegions,
                   reserve0_ok \in BOOLEAN, a \in AllocOutcomes,
                   ptr \in HeapPages \cup {NullPtr}, reserve_ok \in BOOLEAN :
                   MapMemoryFrom(d, from, region, reserve0_ok, a, ptr,
                                 reserve_ok)

SpecMap == InitMap /\ [][NextMap]_vars

(***************************************************************************)
(* SpecConc: CPUs that each take the page manager with get_page_manager()  *)
(* and call alloc_frame, or set_frame_free on a frame they were given.     *)
(* The first_unset and set of alloc_frame are separate steps.              *)
(***************************************************************************)
ConcKernelUnchanged ==
    /\ UNCHANGED <<references, tables, tables_physical, page_tables, current,
                   halted, last>>
    /\ UNCHANGED sysvars

\* hist keeps the results that bear on the reuse of a released frame: the
\* latest run of up to three successive successful allocations, the release
\* that followed three of them, and the allocation after that release
IsAllocOk(e) == e.op = "alloc_frame" /\ e.ok
AllAllocs(h) == \A i \in DOMAIN h : IsAllocOk(h[i])
Push(h, e) ==
    IF Len(h) = 4 /\ e.op = "alloc_frame" THEN Append(h, e)
    ELSE IF Len(h) = 3 /\ AllAllocs(h) /\ e.op = "set_frame_free"
    THEN Append(h, e)
    ELSE IF IsAllocOk(e)
    THEN LET run == IF AllAllocs(h) THEN h
                    ELSE IF Len(h) = 5 /\ IsAllocOk(h[5]) THEN <<h[5]>>
                    ELSE <<>>
         IN IF Len(run) = 3 THEN Append(Tail(run), e) ELSE Append(run, e)
    ELSE <<>>

\* a CPU starts `get_page_manager().alloc_frame()` or
\* `get_page_manager().set_frame_free(arg)`
CallManager(t, op, arg) ==
    /\ cpus[t].pc = "idle"
    /\ \/ op = "alloc_frame" /\ arg = 0
       \/ op = "set_frame_free" /\ arg \in Frames /\ cpus[t].got[arg] > 0
    /\ cpus' = [cpus EXCEPT ![t].pc = "trying", ![t].op = op, ![t].arg = arg,
                            ![t].has_warned = FALSE]
    /\ UNCHANGED <<frame_set, lock, hist>>
    /\ ConcKernelUnchanged

\* one iteration of the loop of get_page_manager, with the mutex ignored
get_page_manager_NoExclusion(t) ==
    /\ cpus[t].pc = "trying"
    /\ lock' = t
    /\ cpus' = [cpus EXCEPT ![t].pc = "locked"]
    /\ UNCHANGED <<frame_set, hist>>
    /\ ConcKernelUnchanged

\* one iteration of the loop of get_page_manager: try_lock, and on failure
\* the warning and process_urgent_messages
get_page_manager(t) ==
    /\ cpus[t].pc = "trying"
    /\ IF lock = NoHolder
       THEN /\ lock' = t
            /\ cpus' = [cpus EXCEPT ![t].pc = "locked"]
       ELSE /\ lock' = lock
            /\ cpus' = [cpus EXCEPT ![t].has_warned = TRUE]
    /\ UNCHANGED <<frame_set, hist>>
    /\ ConcKernelUnchanged

\* alloc_frame, first half: self.frame_set.first_unset()
AllocFirstUnset(t) ==
    /\ cpus[t].pc = "locked" /\ cpus[t].op = "alloc_frame"
    /\ cpus' = [cpus EXCEPT ![t].pc = "found", ![t].idx = first_unset(frame_set)]
    /\ UNCHANGED <<frame_set, lock, hist>>
    /\ ConcKernelUnchanged

\* alloc_frame, second half: self.frame_set.set(idx), the result, and the
\* guard going out of scope
AllocSet(t) ==
    /\ cpus[t].pc = "found"
    /\ LET idx == cpus[t].idx IN
       IF IsSome(idx)
       THEN /\ frame_set' = BitSet_set(frame_set, Unwrap(idx))
            /\ cpus' = [cpus EXCEPT ![t].pc = "idle", ![t].idx = None,
                          ![t].got[Unwrap(idx) * PAGE_SIZE] = @ + 1]
            /\ hist' = Push(hist, [op |-> "alloc_frame", ok |-> TRUE,
                                   frame |-> Unwrap(idx) * PAGE_SIZE])
       ELSE /\ frame_set' = frame_set
            /\ cpus' = [cpus EXCEPT ![t].pc = "idle", ![t].idx = None]
            /\ hist' = Push(hist, [op |-> "alloc_frame", ok |-> FALSE,
                                   frame |-> 0])
    /\ lock' = NoHolder
    /\ ConcKernelUnchanged

\* set_frame_free under the guard, and the guard going out of scope
ReleaseFrame(t) ==
    /\ cpus[t].pc = "locked" /\ cpus[t].op = "set_frame_free"
    /\ frame_set' = set_frame_free([frame_set |-> frame_set], cpus[t].arg).frame_set
    /\ cpus' = [cpus EXCEPT ![t].pc = "idle", ![t].got[cpus[t].arg] = 0]
    /\ hist' = Push(hist, [op |-> "set_frame_free", ok |-> TRUE,
                           frame |-> cpus[t].arg])
    /\ lock' = NoHolder
    /\ ConcKernelUnchanged

NoMappings == [i \in UserIdx |-> "unmapped"]

InitConc ==
    /\ InitMemory(NoMappings, BootFrames(NoMappings), 2)
    /\ current = [t \in Threads |-> RunningOn(t)]
    /\ halted = FALSE
    /\ last = NoCall
    /\ ConcIdle

NextConc ==
    \/ \E t \in CPUs : CallManager(t, "alloc_frame", 0)
    \/ \E t \in CPUs, f \in Frames : CallManager(t, "set_frame_free", f)
    \/ \E t \in CPUs : get_page_manager(t)
    \/ \E t \in CPUs : AllocFirstUnset(t)
    \/ \E t \in CPUs : AllocSet(t)
    \/ \E t \in CPUs : ReleaseFrame(t)

SpecConc == InitConc /\ [][NextConc]_vars

(***************************************************************************)
(* SpecScan: the read-only walks of a directory.  Process 1 maps any set   *)
(* of the first NumScanPages user pages, each on a frame of its own; the   *)
(* other entries of its page table, up to ScanEnd, are unused.  One call   *)
(* of virt_to_phys, find_hole or validate_region is made from each state.  *)
(***************************************************************************)
ScanEnd == 16 * PAGE_SIZE
ScanIdx == 0 .. ((ScanEnd \div PAGE_SIZE) - 1)
ScanPages == {e * PAGE_SIZE : e \in 0 .. (NumScanPages - 1)}

ScanTable(mapped, t) ==
    IF t = 1
    THEN [e \in ScanIdx |-> IF e \in mapped THEN PrivateEntry(e) ELSE 0]
    ELSE InitTable(NoMappings, t)

ScanSlot(mapped, d, i) ==
    IF i = TableIdxOf(HEAP_START)
    THEN Some([table |-> KernelTable, can_free |-> FALSE])
    ELSE IF d = 1 /\ mapped # {}
         THEN Some([table |-> 1, can_free |-> TRUE])
         ELSE None

InitScan ==
    /\ \E mapped \in SUBSET (0 .. (NumScanPages - 1)) :
          /\ frame_set = [i \in FrameIdx |->
                            i < NumHeapPages \/ (i - NumHeapPages) \in mapped]
          /\ references = [p \in {} |-> 0]
          /\ tables = [d \in Dirs |-> [i \in TableIdxs |->
                                         ScanSlot(mapped, d, i)]]
          /\ tables_physical =
                [d \in Dirs |-> [i \in TableIdxs |->
                   IF IsSome(ScanSlot(mapped, d, i))
                   THEN PageDirEntry_new(
                          TablePhys(Unwrap(ScanSlot(mapped, d, i)).table),
                          PDF_Present + PDF_ReadWrite + PDF_UserSupervisor
                          + (IF i >= (KERNEL_PAGE_DIR_SPLIT \div PAGE_SIZE) \div 1024
                             THEN PDF_Global ELSE 0))
                   ELSE 0]]
          /\ page_tables = [t \in TableIds |-> ScanTable(mapped, t)]
    /\ current = [t \in Threads |-> RunningOn(t)]
    /\ halted = FALSE
    /\ last = NoCall
    /\ ConcIdle

\* the inputs of the walks
ScanOffsets == {0, 4, PAGE_SIZE - 1}
HoleStarts == {0, 4, PAGE_SIZE}
HoleEnds == {e * PAGE_SIZE : e \in 1 .. NumScanPages} \cup {ScanEnd}
HoleSizes == {1, PAGE_SIZE, PAGE_SIZE + 1, 2 * PAGE_SIZE}
RegionStarts == {0, 4, PAGE_SIZE - 4, PAGE_SIZE}
RegionLens == {1, 8, PAGE_SIZE, PAGE_SIZE + 1}

NextScan ==
    \/ Ready /\ \E d \in Procs, v \in ScanPages, off \in ScanOffsets :
                   VirtToPhys(d, v + off)
    \/ Ready /\ \E d \in Procs, start \in HoleStarts, end \in HoleEnds,
                   size \in HoleSizes : FindHole(d, start, end, size)
    \/ Ready /\ \E d \in Procs, start \in RegionStarts, len \in RegionLens :
                   ValidateRegion(d, start, len)

SpecScan == InitScan /\ [][NextScan]_vars

(***************************************************************************)
(* SpecBoot: the two singletons.  The kernel starts with PAGE_MANAGER and  *)
(* KERNEL_PAGE_DIR empty; the setters and the accessors are called in any  *)
(* order, any number of times, until one of them panics.                   *)
(***************************************************************************)

\* set_page_manager(manager) on the static pm (Option<PageManager>)
set_page_manager_Overwrites(pm, manager) ==
    [value |-> Some(manager), res |-> OkUnit]
set_page_manager(pm, manager) ==
    IF IsSome(pm)
    THEN [value |-> pm, res |-> Panic]
    ELSE [value |-> Some(manager), res |-> OkUnit]

\* set_kernel_page_dir(dir) on the static kd (Option<PageDirTracker>)
set_kernel_page_dir(kd, dir) ==
    IF IsSome(kd)
    THEN [value |-> kd, res |-> Panic]
    ELSE [value |-> Some(dir), res |-> OkUnit]

\* PAGE_MANAGER.as_ref().expect(..) / KERNEL_PAGE_DIR.as_ref().expect(..)
expect(static) == IF IsSome(static) THEN OkUnit ELSE Panic

\* the statics as Option values
PAGE_MANAGER == IF installed.PAGE_MANAGER THEN Some(frame_set) ELSE None
KERNEL_PAGE_DIR ==
    IF installed.KERNEL_PAGE_DIR
    THEN Some([tables |-> tables[KernelDir],
               tables_physical |-> tables_physical[KernelDir]])
    ELSE None

\* the variables the boot calls leave alone
BootUnchanged ==
    UNCHANGED <<references, page_tables, current, lock, cpus, hist, cr3,
                CURRENT_PAGE_DIR, dropping, dropped, queue,
                urgent_message_queue, drain, sent, done, held, cow_call, hwvars, heapvars>>

SetPageManager(manager) ==
    /\ ~halted
    /\ LET r == set_page_manager(PAGE_MANAGER, manager) IN
       /\ installed' = [installed EXCEPT !.PAGE_MANAGER = IsSome(r.value)]
       /\ frame_set' = Unwrap(r.value)
       /\ halted' = (r.res = Panic)
       /\ last' = [Call("set_page_manager", KernelDir, 0, "none", r.res)
                     EXCEPT !.manager = Some(manager)]
    /\ UNCHANGED <<tables, tables_physical>>
    /\ BootUnchanged

SetKernelPageDir(dir) ==
    /\ ~halted
    /\ LET r == set_kernel_page_dir(KERNEL_PAGE_DIR, dir) IN
       /\ installed' = [installed EXCEPT !.KERNEL_PAGE_DIR = IsSome(r.value)]
       /\ tables' = [tables EXCEPT ![KernelDir] = Unwrap(r.value).tables]
       /\ tables_physical' = [tables_physical EXCEPT ![KernelDir] =
                                 Unwrap(r.value).tables_physical]
       /\ halted' = (r.res = Panic)
       /\ last' = [Call("set_kernel_page_dir", KernelDir, 0, "none", r.res)
                     EXCEPT !.dir = Some(dir)]
    /\ UNCHANGED frame_set
    /\ BootUnchanged

\* get_page_manager() with the mutex free: the expect, the try_lock, and the
\* guard going out of scope
GetPageManager ==
    /\ ~halted
    /\ lock = NoHolder
    /\ halted' = (expect(PAGE_MANAGER) = Panic)
    /\ last' = Call("get_page_manager", KernelDir, 0, "none",
                    expect(PAGE_MANAGER))
    /\ UNCHANGED <<frame_set, tables, tables_physical, installed>>
    /\ BootUnchanged

GetKernelPageDir ==
    /\ ~halted
    /\ halted' = (expect(KERNEL_PAGE_DIR) = Panic)
    /\ last' = Call("get_kernel_page_dir", KernelDir, 0, "none",
                    expect(KERNEL_PAGE_DIR))
    /\ UNCHANGED <<frame_set, tables, tables_physical, installed>>
    /\ BootUnchanged

\* the directories handed to set_kernel_page_dir: one without page tables,
\* and one that has the page table of the heap window
BootDirs ==
    {[tables |-> [i \in TableIdxs |-> None],
      tables_physical |-> [i \in TableIdxs |-> 0]],
     [tables |-> [i \in TableIdxs |-> InitSlot(NoMappings, KernelDir, i)],
      tables_physical |-> [i \in TableIdxs |->
         IF IsSome(InitSlot(NoMappings, KernelDir, i))
         THEN PageDirEntry_new(TablePhys(KernelTable),
                PDF_Present + PDF_ReadWrite + PDF_UserSupervisor + PDF_Global)
         ELSE 0]]}

InitBoot ==
    /\ installed = [PAGE_MANAGER |-> FALSE, KERNEL_PAGE_DIR |-> FALSE]
    /\ frame_set = [i \in FrameIdx |-> FALSE]
    /\ references = [p \in {} |-> 0]
    /\ tables = [d \in Dirs |-> [i \in TableIdxs |-> None]]
    /\ tables_physical = [d \in Dirs |-> [i \in TableIdxs |-> 0]]
    /\ page_tables = [t \in TableIds |-> InitTable(NoMappings, t)]
    /\ current = [t \in Threads |-> NoTask]
    /\ halted = FALSE
    /\ last = NoCall
    /\ ManagerIdle
    /\ DropIdle
    /\ QueueIdle
    /\ MsgIdle
    /\ LockIdle
    /\ HwIdle

NextBoot ==
    \/ \E manager \in [FrameIdx -> BOOLEAN] : SetPageManager(manager)
    \/ \E dir \in BootDirs : SetKernelPageDir(dir)
    \/ GetPageManager
    \/ GetKernelPageDir

SpecBoot == InitBoot /\ [][NextBoot]_vars

(***************************************************************************)
(* SpecQueue: the task queue of one CPU thread.  Tasks are inserted,       *)
(* consumed and removed in any order, starting from TaskQueue::new().      *)
(***************************************************************************)

\* TaskQueueEntry::new(id, priority): the priority byte is
\* ((priority + 7) << 4) | 7
TaskQueueEntry_new(id, priority) ==
    [id |-> id, priority |-> ((priority + 7) * 16 + 7) % 256]

\* VecDeque::insert(index, x) and VecDeque::remove(index), index from 0;
\* remove of an index past the end removes nothing
VecInsert(q, index, x) ==
    SubSeq(q, 1, index) \o <<x>> \o SubSeq(q, index + 1, Len(q))
VecRemove(q, index) ==
    IF index < Len(q)
    THEN SubSeq(q, 1, index) \o SubSeq(q, index + 2, Len(q))
    ELSE q

\* TaskQueue::insert(entry); reserve_ok: try_reserve(1) succeeds
TaskQueue_insert_BeforeEqual(q, entry, reserve_ok) ==
    IF ~reserve_ok THEN [queue |-> q, res |-> Err("OutOfMemory")]
    ELSE IF \E i \in 1 .. Len(q) : q[i].id = entry.id
    THEN [queue |-> q, res |-> Err("Exists")]
    ELSE LET before == {i \in 1 .. Len(q) : entry.priority >= q[i].priority} IN
         IF before = {}
         THEN [queue |-> Append(q, entry), res |-> OkUnit]
         ELSE [queue |-> VecInsert(q, (CHOOSE i \in before :
                                         \A j \in before : i <= j) - 1, entry),
               res |-> OkUnit]
TaskQueue_insert(q, entry, reserve_ok) ==
    IF ~reserve_ok THEN [queue |-> q, res |-> Err("OutOfMemory")]
    ELSE IF \E i \in 1 .. Len(q) : q[i].id = entry.id
    THEN [queue |-> q, res |-> Err("Exists")]
    ELSE LET before == {i \in 1 .. Len(q) : entry.priority > q[i].priority} IN
         IF before = {}
         THEN [queue |-> Append(q, entry), res |-> OkUnit]
         ELSE [queue |-> VecInsert(q, (CHOOSE i \in before :
                                         \A j \in before : i <= j) - 1, entry),
               res |-> OkUnit]

\* TaskQueue::remove_thread(id)
remove_thread(q, id) ==
    LET found == {i \in 1 .. Len(q) : q[i].id = id} IN
    IF found = {} THEN q
    ELSE VecRemove(q, (CHOOSE i \in found : \A j \in found : i <= j) - 1)

\* the loop of remove_process: queue.remove(index) for each collected index
RECURSIVE remove_indices(_, _)
remove_indices(q, to_remove) ==
    IF to_remove = <<>> THEN q
    ELSE remove_indices(VecRemove(q, Head(to_remove)), Tail(to_remove))

\* the indices, from 0 and ascending, of the entries of q of process id
RECURSIVE indices_of(_, _, _)
indices_of(q, id, i) ==
    IF i > Len(q) THEN <<>>
    ELSE (IF q[i].id.process = id THEN <<i - 1>> ELSE <<>>)
         \o indices_of(q, id, i + 1)

\* TaskQueue::remove_process(id)
remove_process(q, id) == remove_indices(q, indices_of(q, id, 1))

\* the thread whose queue is exercised, the ids and the priorities of tasks
QueueThread == CHOOSE t \in DrainThreads : \A u \in DrainThreads : t <= u
ProcessIDs == [process : Procs, thread : {0, 1}]
Priorities == {0, 1}

QueueUnchanged ==
    UNCHANGED <<frame_set, references, tables, tables_physical, page_tables,
                halted, lock, cpus, hist, installed, cr3, CURRENT_PAGE_DIR,
                dropping, dropped, urgent_message_queue, drain, sent, done,
                held, cow_call, hwvars, heapvars>>

Insert(t, entry, reserve_ok) ==
    /\ LET r == TaskQueue_insert(queue[t], entry, reserve_ok) IN
       /\ queue' = [queue EXCEPT ![t] = r.queue]
       /\ last' = [Call("insert", t, entry.id.process, "none", r.res)
                      EXCEPT !.len = entry.id.thread, !.phys = entry.priority]
    /\ UNCHANGED current
    /\ QueueUnchanged

\* TaskQueue::consume
Consume(t) ==
    /\ current' = [current EXCEPT ![t] =
                      IF queue[t] = <<>> THEN NoTask
                      ELSE Head(queue[t]).id.process]
    /\ queue' = [queue EXCEPT ![t] = IF queue[t] = <<>> THEN <<>>
                                      ELSE Tail(queue[t])]
    /\ last' = Call("consume", t, 0, "none", OkUnit)
    /\ QueueUnchanged

RemoveThread(t, id) ==
    /\ queue' = [queue EXCEPT ![t] = remove_thread(queue[t], id)]
    /\ last' = Call("remove_thread", t, id.process, "none", OkUnit)
    /\ UNCHANGED current
    /\ QueueUnchanged

RemoveProcess(t, id) ==
    /\ queue' = [queue EXCEPT ![t] = remove_process(queue[t], id)]
    /\ last' = Call("remove_process", t, id, "none", OkUnit)
    /\ UNCHANGED current
    /\ QueueUnchanged

InitQueue ==
    /\ InitMemory(NoMappings, BootFrames(NoMappings), 2)
    /\ current = [t \in Threads |-> NoTask]
    /\ halted = FALSE
    /\ last = NoCall
    /\ ConcIdle

NextQueue ==
    \/ \E id \in ProcessIDs, priority \in Priorities, reserve_ok \in BOOLEAN :
          Insert(QueueThread, TaskQueueEntry_new(id, priority), reserve_ok)
    \/ Consume(QueueThread)
    \/ \E id \in ProcessIDs : RemoveThread(QueueThread, id)
    \/ \E id \in Procs : RemoveProcess(QueueThread, id)

SpecQueue == InitQueue /\ [][NextQueue]_vars

(***************************************************************************)
(* SpecDrop: CPUs that load directories into their MMU base register with  *)
(* switch_to and drop the directories of processes.  The destructor runs   *)
(* in steps: the assert, remove_page_table for each slot, and the release  *)
(* of the top-level arrays.  A directory that is being dropped or has been *)
(* dropped is not switched to: its owner has given up every reference.     *)
(***************************************************************************)

\* is_page_dir_current(page_dir), evaluated on CPU c: it reads c's cr3
is_page_dir_current(c, d) == DirPhys(d) = cr3[c]

\* PageDir::remove_page_table(idx << 22) on directory d of kernel state k
remove_page_table_KeepsEntry(k, d, idx) ==
    IF IsSome(k.tables[d][idx])
    THEN [k EXCEPT !.tables[d][idx] = None]
    ELSE k
remove_page_table(k, d, idx) ==
    IF IsSome(k.tables[d][idx])
    THEN [k EXCEPT !.tables[d][idx] = None, !.tables_physical[d][idx] = 0]
    ELSE k

\* no destructor is at work on directory d
NotBeingDropped(d) == \A c \in CPUs : ~(dropping[c].pc # "idle" /\ dropping[c].dir = d)

DropUnchanged ==
    UNCHANGED <<frame_set, references, page_tables, current, lock, cpus, hist,
                installed, queue, urgent_message_queue, drain, sent, done,
                held, cow_call, hwvars, dir_can_free>>

\* a call of dealloc: what is passed to it and whether the block is
\* released.  GlobalAlloc::dealloc requires the layout the block was
\* allocated with; with another layout the behaviour is undefined, and the
\* block is released or not.
Dealloc(kind, what, released) ==
    [kind |-> kind, what |-> what, released |-> released]
DeallocOutcomes(alloc_align, align) ==
    IF align = alloc_align THEN {TRUE} ELSE BOOLEAN

\* the dealloc of PageDir::remove_page_table(idx << 22): the table of the
\* slot, if the slot holds one that is marked can_free
remove_page_table_dealloc(k, d, idx) ==
    LET slot == k.tables[d][idx] IN
    IF IsSome(slot) /\ Unwrap(slot).can_free
    THEN <<Dealloc("table", Unwrap(slot).table, TRUE)>>
    ELSE <<>>

\* PageDirectory::switch_to on CPU c
SwitchTo(c, d) ==
    /\ ~halted
    /\ dropping[c].pc = "idle"
    /\ d \notin dropped /\ NotBeingDropped(d)
    /\ cr3' = [cr3 EXCEPT ![c] = DirPhys(d)]
    /\ CURRENT_PAGE_DIR' = Some(d)
    /\ last' = Call("switch_to", d, c, "none", OkUnit)
    /\ UNCHANGED <<tables, tables_physical, halted, dropping, dropped,
                   deallocated>>
    /\ DropUnchanged

\* Drop for PageDir on CPU c, first step: the assert
DropAssert(c, d) ==
    /\ ~halted
    /\ dropping[c].pc = "idle"
    /\ d \notin dropped /\ NotBeingDropped(d)
    /\ IF is_page_dir_current(c, d)
       THEN /\ halted' = TRUE
            /\ last' = Call("drop", d, c, "none", Panic)
            /\ UNCHANGED <<dropping, deallocated>>
       ELSE /\ dropping' = [dropping EXCEPT ![c] =
                              [pc |-> "tables", dir |-> d, todo |-> TableIdxs]]
            /\ deallocated' = [deallocated EXCEPT ![c] = <<>>]
            /\ last' = [Call("drop", d, c, "none", OkUnit) EXCEPT !.stage = "assert"]
            /\ UNCHANGED halted
    /\ UNCHANGED <<tables, tables_physical, cr3, CURRENT_PAGE_DIR, dropped>>
    /\ DropUnchanged

\* Drop for PageDir, the loop: remove_page_table for the next slot
DropTable(c) ==
    /\ ~halted
    /\ dropping[c].pc = "tables"
    /\ LET d == dropping[c].dir
           i == CHOOSE x \in dropping[c].todo : \A y \in dropping[c].todo : x <= y
           k == remove_page_table(Kernel, d, i)
       IN /\ tables' = k.tables
          /\ tables_physical' = k.tables_physical
          /\ deallocated' = [deallocated EXCEPT
                               ![c] = @ \o remove_page_table_dealloc(Kernel, d, i)]
          /\ dropping' = [dropping EXCEPT
                            ![c].todo = @ \ {i},
                            ![c].pc = IF dropping[c].todo = {i} THEN "arrays"
                                      ELSE "tables"]
          /\ last' = [Call("drop", d, c, "none", OkUnit) EXCEPT !.stage = "tables"]
    /\ UNCHANGED <<halted, cr3, CURRENT_PAGE_DIR, dropped>>
    /\ DropUnchanged

\* Drop for PageDir, last step: if self.can_free the two arrays are passed
\* to dealloc, each with Layout::new of its type, and the destructor returns.
\* PageDir::new allocated tables with that layout, but tables_physical with
\* the alignment PAGE_SIZE.
TableRefAlign == 4
PageDirEntryAlign == 4
DropArrays(c) ==
    /\ ~halted
    /\ dropping[c].pc = "arrays"
    /\ dropped' = dropped \cup {dropping[c].dir}
    /\ \E r1 \in DeallocOutcomes(TableRefAlign, TableRefAlign),
          r2 \in DeallocOutcomes(PAGE_SIZE, PageDirEntryAlign) :
         deallocated' =
           [deallocated EXCEPT ![c] =
              IF dir_can_free[dropping[c].dir]
              THEN @ \o <<Dealloc("tables", dropping[c].dir, r1),
                          Dealloc("tables_physical", dropping[c].dir, r2)>>
              ELSE @]
    /\ dropping' = [dropping EXCEPT ![c] = NoDrop]
    /\ last' = [Call("drop", dropping[c].dir, c, "none", OkUnit)
                  EXCEPT !.stage = "arrays"]
    /\ UNCHANGED <<tables, tables_physical, halted, cr3, CURRENT_PAGE_DIR>>
    /\ DropUnchanged

InitDrop ==
    /\ \E lay \in Layouts : InitMemory(lay, BootFrames(lay), 2)
    /\ current = [t \in Threads |-> RunningOn(t)]
    /\ halted = FALSE
    /\ last = NoCall
    /\ ConcIdle

NextDrop ==
    \/ \E c \in CPUs, d \in Dirs : SwitchTo(c, d)
    \/ \E c \in CPUs, d \in Procs : DropAssert(c, d)
    \/ \E c \in CPUs : DropTable(c)
    \/ \E c \in CPUs : DropArrays(c)

SpecDrop == InitDrop /\ [][NextDrop]_vars

(***************************************************************************)
(* SpecDir: the tables of the hardware directories.  Callers add and       *)
(* remove page tables and set pages in the directories that are alive, the *)
(* CPUs switch directories, and any directory, the kernel's included, is   *)
(* dropped once no CPU has it loaded.                                      *)
(***************************************************************************)

\* no call is made on a directory whose owner has dropped it
Alive(d) == d \notin dropped /\ NotBeingDropped(d)

\* dir.add_page_table(idx << 22, table, phys, can_free) by a caller: the
\* table is one no slot refers to, or the kernel's table for the heap window
AddPageTable(d, idx, table, can_free) ==
    /\ ~halted
    /\ Alive(d)
    /\ \/ table \in FreeTables(Kernel)
       \/ table = KernelTable /\ idx = TableIdxOf(HEAP_START) /\ ~can_free
    /\ Commit(add_page_table(Kernel, d, idx * 4194304, table, TablePhys(table),
                             can_free),
              [Call("add_page_table", d, idx, "none", OkUnit)
                 EXCEPT !.freed = can_free])

\* dir.remove_page_table(idx << 22) by a caller
RemovePageTable(d, idx) ==
    /\ ~halted
    /\ Alive(d)
    /\ Commit(remove_page_table(Kernel, d, idx),
              [Call("remove_page_table", d, idx, "none", OkUnit)
                 EXCEPT !.freed = remove_page_table_dealloc(Kernel, d, idx) # <<>>])

\* dir.set_page(v, page) on a directory that is alive
DirSetPage(d, v, page, heap_ok) == Alive(d) /\ SetPage(d, v, page, heap_ok)

\* the directory the callers of SpecDir work on, the CPU that switches and
\* drops directories, the pages set and the frames they are set to
DirsCalled == {1}
DirCPUs == {1}
DirPages == {PAGE_SIZE}
DirFrames == {f \in SetPageFrames : f.present /\ f.addr = PAGE_SIZE}

InitDir ==
    /\ \E lay \in {l \in Layouts : l[0] = "unmapped" /\ l[1] # "private"} :
         InitMemory(lay, BootFrames(lay), 2)
    /\ current = [t \in Threads |-> RunningOn(t)]
    /\ halted = FALSE
    /\ last = NoCall
    /\ ConcIdle

NextDir ==
    \/ \E c \in DirCPUs, d \in Dirs : SwitchTo(c, d)
    \/ \E c \in DirCPUs, d \in Dirs : DropAssert(c, d)
    \/ \E c \in DirCPUs : DropTable(c)
    \/ \E c \in DirCPUs : DropArrays(c)
    \/ \E d \in DirsCalled, idx \in TableIdxs, table \in TableIds, can_free \in BOOLEAN :
          AddPageTable(d, idx, table, can_free)
    \/ \E d \in DirsCalled, idx \in TableIdxs : RemovePageTable(d, idx)
    \/ \E d \in DirsCalled, v \in DirPages, heap_ok \in BOOLEAN,
          page \in {None} \cup {Some(f) : f \in DirFrames} :
          DirSetPage(d, v, page, heap_ok)

SpecDir == InitDir /\ [][NextDir]_vars

(***************************************************************************)
(* SpecMmu: the CPUs' MMU state.  set_page runs in two steps, the stores   *)
(* into the tables and the conditional flush; switch_to in four: the read  *)
(* of the flags, the asm block (cli, mov cr3), the store into              *)
(* CURRENT_PAGE_DIR and the restoring of the flags.  Between the steps of  *)
(* one CPU the others run, and the MMU of any CPU may cache the entry of a *)
(* page of the directory its cr3 names.                                    *)
(***************************************************************************)

MmuUnchanged ==
    UNCHANGED <<frame_set, references, current, halted, lock, cpus, hist,
                installed, dropping, dropped, queue, urgent_message_queue,
                drain, sent, done, held, cow_call, heapvars>>

\* the directory whose tables_physical_addr is p
DirOfPhys(p) == CHOOSE d \in Dirs : DirPhys(d) = p

\* the entry the MMU finds for addr in directory d: it walks the physical
\* directory entry and then the table
WalkEntry(d, addr) ==
    IF HasFlag(get_flags(tables_physical[d][TableIdxOf(addr)]), PDF_Present)
       /\ IsSome(tables[d][TableIdxOf(addr)])
    THEN page_tables[Unwrap(tables[d][TableIdxOf(addr)]).table][EntryIdxOf(addr)]
    ELSE 0

\* the MMU of CPU c misses on page v and caches the present entry it finds
TlbFill(c, v) ==
    /\ tlb[c][v] = None
    /\ HasFlag(get_flags(WalkEntry(DirOfPhys(cr3[c]), v)), PTF_Present)
    /\ tlb' = [tlb EXCEPT ![c][v] = Some(WalkEntry(DirOfPhys(cr3[c]), v))]
    /\ last' = Call("tlb_fill", DirOfPhys(cr3[c]), v, "none", OkUnit)
    /\ UNCHANGED <<tables, tables_physical, page_tables, cr3, CURRENT_PAGE_DIR,
                   interrupts, dir_call>>
    /\ MmuUnchanged

\* the callers of set_page hold the directory exclusively (&mut self)
NoCallOn(d) == \A c \in CPUs : dir_call[c].pc = "idle" \/ dir_call[c].dir # d

\* PageDir::set_page on CPU c up to and including the store of the entry;
\* an error returns at once
SetPageStore(c, d, v, page, heap_ok) ==
    /\ dir_call[c].pc = "idle"
    /\ NoCallOn(d)
    /\ LET r == set_page(Kernel, d, v, page, heap_ok) IN
       /\ tables' = r.k.tables
       /\ tables_physical' = r.k.tables_physical
       /\ page_tables' = r.k.page_tables
       /\ dir_call' = IF r.res.ok
                      THEN [dir_call EXCEPT ![c] =
                              [pc |-> "written", dir |-> d, addr |-> v,
                               flags |-> FALSE, later |-> FALSE]]
                      ELSE dir_call
       /\ last' = [Call("set_page", d, v, "none", r.res)
                     EXCEPT !.page = page, !.stage = "store"]
    /\ UNCHANGED <<cr3, CURRENT_PAGE_DIR, tlb, interrupts>>
    /\ MmuUnchanged

\* flush(addr): invlpg drops the entry of the page from the TLB of CPU c
flush(t, c, addr) == [t EXCEPT ![c][(addr \div PAGE_SIZE) * PAGE_SIZE] = None]

\* PageDir::set_page on CPU c, the end: the flush if the directory is
\* current, and the return
SetPageFlush_Never(c) ==
    /\ dir_call[c].pc = "written"
    /\ tlb' = tlb
    /\ dir_call' = [dir_call EXCEPT ![c] = IdleDirCall]
    /\ last' = [Call("set_page", dir_call[c].dir, dir_call[c].addr, "none", OkUnit)
                  EXCEPT !.stage = "flush"]
    /\ UNCHANGED <<tables, tables_physical, page_tables, cr3, CURRENT_PAGE_DIR,
                   interrupts>>
    /\ MmuUnchanged
SetPageFlush(c) ==
    /\ dir_call[c].pc = "written"
    /\ tlb' = IF is_page_dir_current(c, dir_call[c].dir)
              THEN flush(tlb, c, dir_call[c].addr)
              ELSE tlb
    /\ dir_call' = [dir_call EXCEPT ![c] = IdleDirCall]
    /\ last' = [Call("set_page", dir_call[c].dir, dir_call[c].addr, "none", OkUnit)
                  EXCEPT !.stage = "flush"]
    /\ UNCHANGED <<tables, tables_physical, page_tables, cr3, CURRENT_PAGE_DIR,
                   interrupts>>
    /\ MmuUnchanged

\* PageDir::switch_to on CPU c: the assert holds (the directories are in
\* kernel memory) and get_flags reads EFLAGS.  `later` of a call records
\* that another CPU has entered switch_to since the call began.
SwitchGetFlags(c, d) ==
    /\ dir_call[c].pc = "idle"
    /\ dir_call' = [o \in CPUs |->
                      IF o = c
                      THEN [pc |-> "flags", dir |-> d, addr |-> 0,
                            flags |-> interrupts[c], later |-> FALSE]
                      ELSE IF dir_call[o].pc \in {"flags", "loaded", "stored"}
                           THEN [dir_call[o] EXCEPT !.later = TRUE]
                           ELSE dir_call[o]]
    /\ last' = [Call("switch_to", d, c, "none", OkUnit) EXCEPT !.stage = "flags"]
    /\ UNCHANGED <<tables, tables_physical, page_tables, cr3, CURRENT_PAGE_DIR,
                   tlb, interrupts>>
    /\ MmuUnchanged

\* the asm block: cli, then mov cr3, which drops the entries of the TLB
\* that are not global
SwitchLoad(c) ==
    /\ dir_call[c].pc = "flags"
    /\ interrupts' = [interrupts EXCEPT ![c] = FALSE]
    /\ cr3' = [cr3 EXCEPT ![c] = DirPhys(dir_call[c].dir)]
    /\ tlb' = [tlb EXCEPT ![c] =
                 [v \in VirtPages |->
                    IF IsSome(tlb[c][v])
                       /\ HasFlag(get_flags(Unwrap(tlb[c][v])), PTF_Global)
                    THEN tlb[c][v] ELSE None]]
    /\ dir_call' = [dir_call EXCEPT ![c].pc = "loaded"]
    /\ last' = [Call("switch_to", dir_call[c].dir, c, "none", OkUnit)
                  EXCEPT !.stage = "loaded"]
    /\ UNCHANGED <<tables, tables_physical, page_tables, CURRENT_PAGE_DIR>>
    /\ MmuUnchanged

\* CURRENT_PAGE_DIR = Some(transmute(self)): a plain store into the static
\* all CPUs share
SwitchStore(c) ==
    /\ dir_call[c].pc = "loaded"
    /\ CURRENT_PAGE_DIR' = Some(dir_call[c].dir)
    /\ dir_call' = [dir_call EXCEPT ![c].pc = "stored"]
    /\ last' = [Call("switch_to", dir_call[c].dir, c, "none", OkUnit)
                  EXCEPT !.stage = "stored"]
    /\ UNCHANGED <<tables, tables_physical, page_tables, cr3, tlb, interrupts>>
    /\ MmuUnchanged

\* set_flags(flags) writes the saved flags back, and switch_to returns
SwitchReturn(c) ==
    /\ dir_call[c].pc = "stored"
    /\ interrupts' = [interrupts EXCEPT ![c] = dir_call[c].flags]
    /\ dir_call' = [dir_call EXCEPT ![c] = IdleDirCall]
    /\ last' = [Call("switch_to", dir_call[c].dir, c, "none", OkUnit)
                  EXCEPT !.stage = "returned"]
    /\ UNCHANGED <<tables, tables_physical, page_tables, cr3, CURRENT_PAGE_DIR,
                   tlb>>
    /\ MmuUnchanged

\* the pages set and cached in SpecMmu, and the frames they are set to
MmuPages == {PAGE_SIZE}
MmuFrames == {f \in SetPageFrames : f.present /\ f.addr = 0 /\ f.writable}

InitMmu ==
    /\ \E lay \in {l \in Layouts : l[0] = "unmapped" /\ l[1] = "cow"} :
         InitMemory(lay, BootFrames(lay), 2)
    /\ current = [t \in Threads |-> RunningOn(t)]
    /\ halted = FALSE
    /\ last = NoCall
    /\ ManagerIdle /\ BootDone /\ DropIdle /\ QueueIdle /\ MsgIdle /\ LockIdle
    /\ tlb = [c \in CPUs |-> [v \in VirtPages |-> None]]
    /\ \E b \in BOOLEAN : interrupts = [c \in CPUs |-> b]
    /\ dir_call = [c \in CPUs |-> IdleDirCall]
    /\ deallocated = [c \in CPUs |-> <<>>]
    /\ dir_can_free = [d \in Dirs |-> d # KernelDir]

NextMmu ==
    \/ \E c \in CPUs, v \in MmuPages : TlbFill(c, v)
    \/ \E c \in CPUs, d \in Procs, v \in MmuPages,
          page \in {None} \cup {Some(f) : f \in MmuFrames} :
          SetPageStore(c, d, v, page, TRUE)
    \/ \E c \in CPUs : SetPageFlush(c)
    \/ \E c \in CPUs, d \in Dirs : SwitchGetFlags(c, d)
    \/ \E c \in CPUs : SwitchLoad(c)
    \/ \E c \in CPUs : SwitchStore(c)
    \/ \E c \in CPUs : SwitchReturn(c)

SpecMmu == InitMmu /\ [][NextMmu]_vars

(***************************************************************************)
(* SpecMsg: the urgent message channel.  Any CPU sends urgent messages to  *)
(* a CPU thread; the thread drains its queue with process_urgent_messages, *)
(* one step per lock acquisition; the scheduler of the thread consumes the *)
(* next task of its queue under the lock of the task queue.  The guard of  *)
(* urgent_message_queue.lock() in the `while let` lives until the end of   *)
(* the loop body, so senders wait while an entry is being processed.       *)
(***************************************************************************)

TaskPageUpdate(process_id, addr) ==
    [kind |-> "TaskPageUpdate", process_id |-> process_id, addr |-> addr]
KernelPageUpdate(addr) ==
    [kind |-> "KernelPageUpdate", process_id |-> 0, addr |-> addr]
\* the messages sent in a run: one of each kind; process 1 is the task
\* running on thread 1 and the task waiting on thread 2
UrgentMessages == {TaskPageUpdate(1, 0), KernelPageUpdate(HEAP_START)}

\* CPUThread::send_urgent_message on the queue q; reserve_ok: try_reserve(1)
\* succeeds
send_urgent_message_PushFront(q, message, reserve_ok) ==
    IF ~reserve_ok THEN [queue |-> q, res |-> Err("OutOfMemory")]
    ELSE [queue |-> <<message>> \o q, res |-> OkUnit]
send_urgent_message(q, message, reserve_ok) ==
    IF ~reserve_ok THEN [queue |-> q, res |-> Err("OutOfMemory")]
    ELSE [queue |-> Append(q, message), res |-> OkUnit]

\* the mutexes of thread t, as held by process_urgent_messages: the guard of
\* the urgent queue from the pop to the end of the body, the guard of the
\* task queue from the read of current() to the end of the match arm
urgent_queue_locked(t) == drain[t].pc # "idle"
task_queue_locked_Never(t) == FALSE
task_queue_locked(t) == drain[t].pc = "checked"

\* the test of the TaskPageUpdate arm on the value read from current()
is_current_process(id, process_id) == process_id # NoTask /\ id = process_id

MsgUnchanged ==
    UNCHANGED <<frame_set, references, tables, tables_physical, page_tables,
                halted, lock, cpus, hist, installed, cr3, CURRENT_PAGE_DIR,
                dropping, dropped, held, cow_call, hwvars, heapvars>>

\* some CPU calls thread.send_urgent_message(message)
SendUrgentMessage(t, message, reserve_ok) ==
    /\ ~urgent_queue_locked(t)
    /\ reserve_ok => Len(sent[1]) + Len(sent[2]) < MaxSent
    /\ LET r == send_urgent_message(urgent_message_queue[t], message,
                                    reserve_ok)
       IN /\ urgent_message_queue' = [urgent_message_queue EXCEPT ![t] = r.queue]
          /\ sent' = [sent EXCEPT ![t] = IF r.res.ok THEN Append(@, message)
                                         ELSE @]
          /\ last' = Call("send_urgent_message", t, 0, "none", r.res)
    /\ UNCHANGED <<drain, done, current, queue>>
    /\ MsgUnchanged

\* process_urgent_messages, the head of the loop: lock and pop_front; an
\* empty queue ends the loop
PopUrgent(t) ==
    /\ drain[t].pc = "idle"
    /\ urgent_message_queue[t] # <<>>
    /\ drain' = [drain EXCEPT ![t] = [pc |-> "entry",
                                      entry |-> Head(urgent_message_queue[t]),
                                      checked |-> NoTask]]
    /\ urgent_message_queue' = [urgent_message_queue EXCEPT ![t] = Tail(@)]
    /\ UNCHANGED <<sent, done, current, queue, last>>
    /\ MsgUnchanged

\* the TaskPageUpdate arm, first half: task_queue.lock() and current()
CheckCurrent(t) ==
    /\ drain[t].pc = "entry"
    /\ drain[t].entry.kind = "TaskPageUpdate"
    /\ drain' = [drain EXCEPT ![t].pc = "checked", ![t].checked = current[t]]
    /\ UNCHANGED <<urgent_message_queue, sent, done, current, queue, last>>
    /\ MsgUnchanged

\* the TaskPageUpdate arm, second half: the test, refresh_page, and both
\* guards going out of scope.  The entry is logged with whether the TLB
\* entry was refreshed and the process that was current at that moment.
RefreshTask(t) ==
    /\ drain[t].pc = "checked"
    /\ done' = [done EXCEPT ![t] = Append(@,
                   [message |-> drain[t].entry,
                    refreshed |-> is_current_process(drain[t].entry.process_id,
                                                     drain[t].checked),
                    current |-> current[t]])]
    /\ drain' = [drain EXCEPT ![t] = IdleDrain]
    /\ UNCHANGED <<urgent_message_queue, sent, current, queue, last>>
    /\ MsgUnchanged

\* the KernelPageUpdate arm
RefreshKernel(t) ==
    /\ drain[t].pc = "entry"
    /\ drain[t].entry.kind = "KernelPageUpdate"
    /\ done' = [done EXCEPT ![t] = Append(@,
                   [message |-> drain[t].entry, refreshed |-> TRUE,
                    current |-> current[t]])]
    /\ drain' = [drain EXCEPT ![t] = IdleDrain]
    /\ UNCHANGED <<urgent_message_queue, sent, current, queue, last>>
    /\ MsgUnchanged

\* one step of process_urgent_messages on thread t
Drain(t) == PopUrgent(t) \/ CheckCurrent(t) \/ RefreshTask(t) \/ RefreshKernel(t)

\* the scheduler of thread t takes the lock of the task queue and consumes
Schedule(t) ==
    /\ ~task_queue_locked(t)
    /\ queue[t] # <<>> \/ current[t] # NoTask
    /\ Consume(t)

\* when the run starts each thread runs a task of one process and a task of
\* the other process waits on it
InitQueues ==
    [t \in DrainThreads |->
        <<TaskQueueEntry_new([process |-> CHOOSE p \in Procs : p # RunningOn(t),
                              thread |-> 0], 0)>>]

InitMsg ==
    /\ InitMemory(NoMappings, BootFrames(NoMappings), 2)
    /\ current = [t \in Threads |-> RunningOn(t)]
    /\ halted = FALSE
    /\ last = NoCall
    /\ ManagerIdle /\ BootDone /\ DropIdle /\ MsgIdle /\ LockIdle /\ HwIdle
    /\ queue = InitQueues

NextMsg ==
    \/ \E t \in DrainThreads, message \in UrgentMessages, reserve_ok \in BOOLEAN :
          SendUrgentMessage(t, message, reserve_ok)
    \/ \E t \in DrainThreads : PopUrgent(t)
    \/ \E t \in DrainThreads : CheckCurrent(t)
    \/ \E t \in DrainThreads : RefreshTask(t)
    \/ \E t \in DrainThreads : RefreshKernel(t)
    \/ \E t \in DrainThreads : Schedule(t)

SpecMsg == InitMsg /\ [][NextMsg]_vars

\* the thread keeps reaching drain points
FairSpecMsg == SpecMsg /\ \A t \in DrainThreads : WF_vars(Drain(t))

(***************************************************************************)
(* SpecWait: threads that call get_page_manager().alloc_frame() while      *)
(* urgent messages are sent to them.  A thread whose try_lock fails runs   *)
(* process_urgent_messages, one queue operation per step, and tries again  *)
(* when the queue is empty; it drains at no other point.  The thread that  *)
(* has the mutex may keep it for ever.                                     *)
(***************************************************************************)
WaitUnchanged ==
    UNCHANGED <<frame_set, references, tables, tables_physical, page_tables,
                current, halted, last, hist, installed, cr3, CURRENT_PAGE_DIR,
                dropping, dropped, queue, sent, done, held, cow_call, hwvars,
                heapvars>>

\* thread t is in the loop of get_page_manager
InGetPageManager(t) == cpus[t].pc \in {"trying", "draining"}

\* get_page_manager on thread t: try_lock, and when it fails the warning
\* and the call of process_urgent_messages
GetPageManagerTry_NoDrain(t) ==
    /\ cpus[t].pc = "trying"
    /\ IF lock = NoHolder
       THEN /\ lock' = t
            /\ cpus' = [cpus EXCEPT ![t].pc = "locked"]
       ELSE /\ lock' = lock
            /\ cpus' = [cpus EXCEPT ![t].has_warned = TRUE]
    /\ UNCHANGED <<urgent_message_queue, drain>>
    /\ WaitUnchanged
GetPageManagerTry(t) ==
    /\ cpus[t].pc = "trying"
    /\ IF lock = NoHolder
       THEN /\ lock' = t
            /\ cpus' = [cpus EXCEPT ![t].pc = "locked"]
       ELSE /\ lock' = lock
            /\ cpus' = [cpus EXCEPT ![t].has_warned = TRUE,
                                    ![t].pc = "draining"]
    /\ UNCHANGED <<urgent_message_queue, drain>>
    /\ WaitUnchanged

\* process_urgent_messages called from get_page_manager, the head of the
\* loop: lock and pop_front; on an empty queue it returns and the thread
\* tries the mutex again
GetPageManagerPop(t) ==
    /\ cpus[t].pc = "draining"
    /\ drain[t].pc = "idle"
    /\ IF urgent_message_queue[t] = <<>>
       THEN /\ cpus' = [cpus EXCEPT ![t].pc = "trying"]
            /\ UNCHANGED <<urgent_message_queue, drain>>
       ELSE /\ drain' = [drain EXCEPT ![t] =
                           [pc |-> "entry",
                            entry |-> Head(urgent_message_queue[t]),
                            checked |-> NoTask]]
            /\ urgent_message_queue' =
                 [urgent_message_queue EXCEPT ![t] = Tail(@)]
            /\ UNCHANGED cpus
    /\ UNCHANGED lock
    /\ WaitUnchanged

\* the steps of thread t inside get_page_manager
GetPageManagerStep(t) ==
    \/ GetPageManagerTry(t) \/ GetPageManagerPop(t)
    \/ CheckCurrent(t) \/ RefreshTask(t) \/ RefreshKernel(t)

\* one frame is left to allocate
InitWait ==
    /\ InitMemory(NoMappings, [i \in FrameIdx |-> i # NumFrames - 1], 2)
    /\ current = [t \in Threads |-> RunningOn(t)]
    /\ halted = FALSE
    /\ last = NoCall
    /\ ManagerIdle /\ BootDone /\ DropIdle /\ MsgIdle /\ LockIdle /\ HwIdle
    /\ queue = InitQueues

NextWait ==
    \/ \E t \in DrainThreads : CallManager(t, "alloc_frame", 0)
    \/ \E t \in DrainThreads : GetPageManagerTry(t)
    \/ \E t \in DrainThreads : GetPageManagerPop(t)
    \/ \E t \in DrainThreads : CheckCurrent(t)
    \/ \E t \in DrainThreads : RefreshTask(t)
    \/ \E t \in DrainThreads : RefreshKernel(t)
    \/ \E t \in DrainThreads : AllocFirstUnset(t)
    \/ \E t \in DrainThreads : AllocSet(t)
    \/ \E t \in DrainThreads, message \in UrgentMessages :
          SendUrgentMessage(t, message, TRUE)

SpecWait == InitWait /\ [][NextWait]_vars

\* a thread inside get_page_manager keeps executing it; nothing makes the
\* thread that has the mutex give it back
FairSpecWait == SpecWait /\ \A t \in DrainThreads : WF_vars(GetPageManagerStep(t))

(***************************************************************************)
(* SpecLock: copy_on_write on two CPUs, one lock operation or one          *)
(* operation under a lock per step.  held[c] lists the locks CPU c holds,  *)
(* oldest first; cow_call[c] holds the locals of its call.                 *)
(***************************************************************************)
ManagerLock == [kind |-> "manager", d |-> 0]
RefsLock == [kind |-> "refs", d |-> 0]
\* the mutex of the directory of process d
DirLock(d) == [kind |-> "dir", d |-> d]

Holds(c, l) == \E i \in 1 .. Len(held[c]) : held[c][i] = l
LockFree(l) == \A c \in CPUs : ~Holds(c, l)
\* a guard of l going out of scope
Released(h, l) == SelectSeq(h, LAMBDA x : x # l)

\* the lock a CPU at pc is about to take, and where it is once it has it
LockSites ==
    {"count_lock", "unshared_lock", "translate_lock", "update_lock",
     "manager_lock", "restore_lock", "replace_lock", "free_lock",
     "free_manager_lock"}
WantedLock(cc) ==
    IF cc.pc \in {"count_lock", "free_lock"} THEN RefsLock
    ELSE IF cc.pc \in {"manager_lock", "free_manager_lock"} THEN ManagerLock
    ELSE DirLock(cc.d)
AfterLock(pc) ==
    IF pc = "count_lock" THEN "count"
    ELSE IF pc = "unshared_lock" THEN "unshared"
    ELSE IF pc = "translate_lock" THEN "translate"
    ELSE IF pc = "update_lock" THEN "update"
    ELSE IF pc = "manager_lock" THEN "alloc_frame"
    ELSE IF pc = "restore_lock" THEN "restore"
    ELSE IF pc = "replace_lock" THEN "replace"
    ELSE IF pc = "free_lock" THEN "remove"
    ELSE "set_frame_free"

LockUnchanged ==
    UNCHANGED <<current, cpus, hist, installed, cr3, CURRENT_PAGE_DIR,
                dropping, dropped, queue, urgent_message_queue, drain, sent,
                done, hwvars, heapvars>>

\* CPU c moves on: kernel state k, locks h, locals cc, last call
LockStep(c, k, h, cc, call) ==
    /\ frame_set' = k.frame_set
    /\ references' = k.references
    /\ tables' = k.tables
    /\ tables_physical' = k.tables_physical
    /\ page_tables' = k.page_tables
    /\ held' = [held EXCEPT ![c] = h]
    /\ lock' = IF \E i \in 1 .. Len(h) : h[i] = ManagerLock THEN c
               ELSE IF lock = c THEN NoHolder ELSE lock
    /\ cow_call' = [cow_call EXCEPT ![c] = cc]
    /\ last' = call
    /\ halted' = (call.res = Panic)
    /\ LockUnchanged

\* copy_on_write returns res on CPU c, every guard it still has goes
CowReturn(c, k, res) ==
    LET cc == cow_call[c] IN
    LockStep(c, k, <<>>, IdleCow,
             Call("copy_on_write", cc.d, cc.addr,
                  IF cc.pc \in {"unshared", "count"} THEN "none"
                  ELSE IF cc.copied_area = NullPtr THEN "null" ELSE "ok",
                  res))

\* a caller that found the page copy-on-write calls copy_on_write
CowEnter(c, d, v) ==
    /\ ~halted
    /\ cow_call[c].pc = "idle"
    /\ IsSome(get_page(Kernel, d, v))
    /\ IsCowPage(Unwrap(get_page(Kernel, d, v)))
    /\ LET page == Unwrap(get_page(Kernel, d, v)) IN
       LockStep(c, Kernel, held[c],
                [IdleCow EXCEPT !.pc = "count_lock", !.d = d, !.addr = v,
                   !.page = page, !.original_page = page],
                last)

\* Mutex::lock, get_page_manager: the CPU waits until the lock is free
Acquire(c) ==
    /\ ~halted
    /\ cow_call[c].pc \in LockSites
    /\ LockFree(WantedLock(cow_call[c]))
    /\ LockStep(c, Kernel, Append(held[c], WantedLock(cow_call[c])),
                [cow_call[c] EXCEPT !.pc = AfterLock(@)], last)

\* PAGE_REF_COUNTER.lock().get_references_for(page.addr) > 1
CowCount(c) ==
    /\ ~halted
    /\ cow_call[c].pc = "count"
    /\ LockStep(c, Kernel, Released(held[c], RefsLock),
                [cow_call[c] EXCEPT !.pc =
                   IF get_references_for(Kernel, cow_call[c].page.addr) > 1
                   THEN "copy" ELSE "unshared_lock"],
                last)

\* the branch that only makes the page writable
CowUnshared(c) ==
    /\ ~halted
    /\ cow_call[c].pc = "unshared"
    /\ LET cc == cow_call[c]
           page1 == cow_unshared_page(cc.page)
           sp == set_page(Kernel, cc.d, cc.addr, Some(page1), TRUE)
       IN CowReturn(c, sp.k, IF sp.res.ok THEN OkFrame(page1) ELSE sp.res)

\* alloc() and the copy of the page into the area it returned
CowAlloc(c, a) ==
    /\ ~halted
    /\ cow_call[c].pc = "copy"
    /\ a.ptr # NullPtr =>
         \A o \in CPUs \ {c} :
            cow_call[o].pc = "idle" \/ cow_call[o].copied_area # a.ptr
    /\ IF a.ptr = NullPtr /\ a.fault
       THEN LockStep(c, Kernel, <<>>, IdleCow,
                     Call("copy_on_write", cow_call[c].d, cow_call[c].addr,
                          "null", Panic))
       ELSE LockStep(c, Kernel, held[c],
                     [cow_call[c] EXCEPT !.pc = "translate_lock",
                        !.copied_area = a.ptr],
                     last)

\* page_dir.virt_to_phys(copied_area)
CowTranslate(c) ==
    /\ ~halted
    /\ cow_call[c].pc = "translate"
    /\ LET cc == cow_call[c]
           new == virt_to_phys(Kernel, cc.d, cc.copied_area)
       IN IF ~IsSome(new)
          THEN CowReturn(c, Kernel, Err("BadAddress"))
          ELSE LockStep(c, Kernel, Released(held[c], DirLock(cc.d)),
                        [cc EXCEPT !.pc = "update_lock",
                           !.page = cow_copied_page(cc.page, Unwrap(new))],
                        last)

\* page_dir.set_page(addr, Some(page))
CowUpdate(c) ==
    /\ ~halted
    /\ cow_call[c].pc = "update"
    /\ LET cc == cow_call[c]
           sp == set_page(Kernel, cc.d, cc.addr, Some(cc.page), TRUE)
       IN IF ~sp.res.ok
          THEN CowReturn(c, sp.k, sp.res)
          ELSE LockStep(c, sp.k, Released(held[c], DirLock(cc.d)),
                        [cc EXCEPT !.pc = "manager_lock"], last)

\* the scrutinee get_page_manager().alloc_frame(): its guard lives to the
\* end of the match, so the Err arm runs with the page manager locked
CowAllocFrame(c) ==
    /\ ~halted
    /\ cow_call[c].pc = "alloc_frame"
    /\ LET cc == cow_call[c]
           af == alloc_frame(Kernel)
       IN IF af.res.ok
          THEN LockStep(c, af.k, Released(held[c], ManagerLock),
                        [cc EXCEPT !.pc = "replace_lock", !.res = af.res],
                        last)
          ELSE LockStep(c, af.k, held[c],
                        [cc EXCEPT !.pc = "restore_lock", !.res = af.res],
                        last)

\* the Err arm: page_dir.set_page(addr, Some(original_page)).expect(..)
CowRestore(c) ==
    /\ ~halted
    /\ cow_call[c].pc = "restore"
    /\ LET cc == cow_call[c]
           sp == set_page(Kernel, cc.d, cc.addr, Some(cc.original_page), TRUE)
       IN CowReturn(c, sp.k, IF sp.res.ok THEN cc.res ELSE Panic)

\* page_dir.set_page(copied_area, Some(new_page)).expect(..)
CowReplace(c) ==
    /\ ~halted
    /\ cow_call[c].pc = "replace"
    /\ LET cc == cow_call[c]
           new_page == [DefaultFrame EXCEPT !.addr = cc.res.num,
                          !.present = TRUE, !.writable = TRUE]
           sp == set_page(Kernel, cc.d, cc.copied_area, Some(new_page), TRUE)
       IN IF ~sp.res.ok
          THEN CowReturn(c, sp.k, Panic)
          ELSE LockStep(c, sp.k, Released(held[c], DirLock(cc.d)),
                        [cc EXCEPT !.pc = "free_lock",
                           !.res = OkFrame(new_page)],
                        last)

\* free_page(original_page): PAGE_REF_COUNTER.lock().remove_reference(..)
\* up to get_page_manager()
CowRemoveReference(c) ==
    /\ ~halted
    /\ cow_call[c].pc = "remove"
    /\ LET cc == cow_call[c]
           phys == cc.original_page.addr
       IN IF phys \in DOMAIN references /\ references[phys] > 1
          THEN CowReturn(c, [Kernel EXCEPT !.references[phys] = @ - 1],
                         cc.res)
          ELSE LockStep(c,
                 [Kernel EXCEPT !.references = MapRemove(references, phys)],
                 held[c], [cc EXCEPT !.pc = "free_manager_lock"], last)

\* get_page_manager().set_frame_free(phys) inside remove_reference
CowSetFrameFree(c) ==
    /\ ~halted
    /\ cow_call[c].pc = "set_frame_free"
    /\ CowReturn(c, set_frame_free(Kernel, cow_call[c].original_page.addr),
                 cow_call[c].res)

\* the frame bitset after boot, or with every frame taken
FullFrames == [i \in FrameIdx |-> TRUE]

\* both processes share one copy-on-write page, page 0 is not mapped
LockLayouts == {lay \in Layouts : lay[0] = "unmapped" /\ lay[1] = "cow"}

InitLock ==
    /\ \E lay \in LockLayouts, full \in BOOLEAN :
         InitMemory(lay, IF full THEN FullFrames ELSE BootFrames(lay), 2)
    /\ current = [t \in Threads |-> RunningOn(t)]
    /\ halted = FALSE
    /\ last = NoCall
    /\ ConcIdle

NextLock ==
    \/ \E c \in CPUs, d \in Procs, v \in UserPages : CowEnter(c, d, v)
    \/ \E c \in CPUs : Acquire(c)
    \/ \E c \in CPUs : CowCount(c)
    \/ \E c \in CPUs : CowUnshared(c)
    \/ \E c \in CPUs, a \in AllocOutcomes : CowAlloc(c, a)
    \/ \E c \in CPUs : CowTranslate(c)
    \/ \E c \in CPUs : CowUpdate(c)
    \/ \E c \in CPUs : CowAllocFrame(c)
    \/ \E c \in CPUs : CowRestore(c)
    \/ \E c \in CPUs : CowReplace(c)
    \/ \E c \in CPUs : CowRemoveReference(c)
    \/ \E c \in CPUs : CowSetFrameFree(c)

SpecLock == InitLock /\ [][NextLock]_vars

(***************************************************************************)
(* Properties of the copy-on-write engine (checked under SpecCow)          *)
(***************************************************************************)

\* the kernel state after the step
KernelNext ==
    [frame_set |-> frame_set', references |-> references', tables |-> tables',
     tables_physical |-> tables_physical', page_tables |-> page_tables']

\* a frame is copy-on-write: copy_on_write set, writable clear, referenced set
CowFlags(f) == f.copy_on_write /\ ~f.writable /\ f.referenced

\* the (directory, page) pairs of live directories that map phys copy-on-write
CowMappings(k, phys) ==
    {m \in Dirs \X VirtPages :
        /\ IsSome(get_page(k, m[1], m[2]))
        /\ Unwrap(get_page(k, m[1], m[2])).addr = phys
        /\ CowFlags(Unwrap(get_page(k, m[1], m[2])))}

\* C2: a reference count >= 2 implies at least two copy-on-write mappings
\* of that frame in live directories, after any sequence of copy_on_write,
\* try_copy_on_write, free_page, remove_reference, remove_reference_no_free.
C2_CountImpliesCowMappings ==
    \A phys \in DOMAIN references :
        references[phys] >= 2 =>
            Cardinality(CowMappings(Kernel, phys)) >= 2

\* the step is a call copy_on_write(d, v, f) that returned Ok
CowStepOk(d, v) ==
    /\ last'.op = "copy_on_write" /\ last'.d = d /\ last'.addr = v
    /\ last'.res.ok

\* C3: copy_on_write(D, v, f) on a page whose frame has count k >= 2, when
\* it succeeds, leaves at v a frame other than f.addr that is writable with
\* copy_on_write and referenced clear, leaves every other directory's
\* mapping of f.addr as it was (copy-on-write), and leaves the count k - 1.
C3_CopyBranchPost ==
    [][\A d \in Procs, v \in UserPages :
         (CowStepOk(d, v)
            /\ get_references_for(Kernel, Unwrap(get_page(Kernel, d, v)).addr) >= 2)
         =>
         LET f == Unwrap(get_page(Kernel, d, v))
             g == get_page(KernelNext, d, v)
         IN /\ IsSome(g)
            /\ Unwrap(g).addr # f.addr
            /\ Unwrap(g).writable
            /\ ~Unwrap(g).copy_on_write
            /\ ~Unwrap(g).referenced
            /\ \A e \in Procs \ {d}, w \in UserPages :
                 (IsSome(get_page(Kernel, e, w))
                    /\ Unwrap(get_page(Kernel, e, w)).addr = f.addr)
                 => /\ get_page(KernelNext, e, w) = get_page(Kernel, e, w)
                    /\ CowFlags(Unwrap(get_page(Kernel, e, w)))
                         => CowFlags(Unwrap(get_page(KernelNext, e, w)))
            /\ get_references_for(KernelNext, f.addr)
                 = get_references_for(Kernel, f.addr) - 1
      ]_vars

C5_CowImpliesReadOnlyReferenced ==
    \A d \in Dirs, v \in VirtPages :
        IsSome(get_page(Kernel, d, v)) =>
            LET f == Unwrap(get_page(Kernel, d, v)) IN
            f.copy_on_write => (~f.writable /\ f.referenced)

\* C6: copy_on_write is all-or-nothing: a failed heap allocation makes it
\* return an error, and whenever it returns an error the frame at v, the
\* frame bitset and the reference count of the original frame are as before.
C6_AllOrNothing ==
    [][\A d \in Procs, v \in UserPages :
         (last'.op = "copy_on_write" /\ last'.d = d /\ last'.addr = v)
         =>
         /\ last'.alloc = "null" => ~last'.res.ok
         /\ ~last'.res.ok =>
              /\ get_page(KernelNext, d, v) = get_page(Kernel, d, v)
              /\ frame_set' = frame_set
              /\ get_references_for(KernelNext, Unwrap(get_page(Kernel, d, v)).addr)
                   = get_references_for(Kernel, Unwrap(get_page(Kernel, d, v)).addr)
      ]_vars

\* C7: try_copy_on_write(thread, addr) returns Ok(true) exactly when the page
\* of addr in the current process's directory was !writable && copy_on_write
\* && referenced and the copy-on-write step succeeded (the page is writable
\* afterwards); Ok(false), changing nothing, when the page is mapped and the
\* predicate is false; NoSuchProcess when the thread has no current task;
\* BadAddress when the page is unmapped.
C7_TryCopyOnWriteResult ==
    [][\A t \in Threads, addr \in FaultAddrs :
         (last'.op = "try_copy_on_write" /\ last'.d = t /\ last'.addr = addr)
         =>
         LET cur == current[t]
             aligned == (addr \div PAGE_SIZE) * PAGE_SIZE
             page == IF cur \in Procs THEN get_page(Kernel, cur, addr) ELSE None
             pred == /\ IsSome(page)
                     /\ ~Unwrap(page).writable
                     /\ Unwrap(page).copy_on_write
                     /\ Unwrap(page).referenced
             after == IF cur \in Procs THEN get_page(KernelNext, cur, aligned)
                      ELSE None
         IN /\ (last'.res = OkBool(TRUE))
                 <=> (pred /\ last'.res.ok
                      /\ IsSome(after) /\ Unwrap(after).writable)
            /\ (IsSome(page) /\ ~pred)
                 => (last'.res = OkBool(FALSE) /\ KernelNext = Kernel)
            /\ cur = NoTask => last'.res = Err("NoSuchProcess")
            /\ (cur \in Procs /\ ~IsSome(page)) => last'.res = Err("BadAddress")
      ]_vars

\* C7 witness: a fault on a shared copy-on-write page was resolved by a copy
C7_Witness ==
    /\ last.op = "try_copy_on_write" /\ last.res = OkBool(TRUE)
    /\ last.alloc = "ok"
    /\ Unwrap(get_page(Kernel, current[last.d],
                       (last.addr \div PAGE_SIZE) * PAGE_SIZE)).writable

(***************************************************************************)
(* Properties of the page manager (checked under Spec)                     *)
(***************************************************************************)

\* the (directory, page) pairs of live directories that map frame phys
MappedAt(k, phys) ==
    {m \in Dirs \X VirtPages :
        /\ IsSome(get_page(k, m[1], m[2]))
        /\ Unwrap(get_page(k, m[1], m[2])).addr = phys}

\* every frame whose bitset bit is clear is mapped nowhere
FreeBitMeansUnmapped(k) ==
    \A i \in FrameIdx : ~k.frame_set[i] => MappedAt(k, i * PAGE_SIZE) = {}

\* C1 as stated: after any sequence of page-manager, copy_on_write,
\* free_page and reference-counter operations, every frame whose bitset bit
\* is clear is mapped by no virtual address of any live directory.
C1_FreeBitMeansUnmapped == FreeBitMeansUnmapped(Kernel)

\* the calls after which a frame that was mapped cannot have become free
C1_Preserving(c) ==
    \/ c.op \in {"alloc_frame", "alloc_frame_at", "set_frame_used",
                 "copy_on_write", "add_reference", "remove_reference_no_free"}
    \/ /\ c.op = "free_frame"
       /\ IsSome(get_page(Kernel, c.d, c.addr))
            => MappedAt(Kernel, Unwrap(get_page(Kernel, c.d, c.addr)).addr)
                 \subseteq {<<c.d, c.addr>>}
    \/ /\ c.op = "set_frame_free"
       /\ MappedAt(Kernel, c.addr) = {}
    \/ /\ c.op = "remove_reference"
       /\ \/ get_references_for(Kernel, c.addr) >= 2
          \/ MappedAt(Kernel, c.addr) = {}
    \/ /\ c.op = "free_page"
       /\ LET f == Unwrap(c.page) IN
          f.referenced /\ get_references_for(Kernel, f.addr) >= 2

\* C1 as amended: from a state where every clear-bit frame is unmapped, this
\* still holds after alloc_frame, alloc_frame_at, set_frame_used,
\* copy_on_write, add_reference and remove_reference_no_free, after
\* free_frame when no other virtual address maps the frame, after
\* set_frame_free of a frame mapped nowhere, after remove_reference of a frame
\* with count >= 2 or mapped nowhere, and after free_page of a referenced
\* frame with count >= 2.
C1_PreservedByGuardedCalls ==
    [][(FreeBitMeansUnmapped(Kernel) /\ C1_Preserving(last'))
         => FreeBitMeansUnmapped(KernelNext)]_vars

\* C1 witness: free_frame has unmapped a page and cleared the bit of its frame
C1_Witness ==
    /\ last.op = "free_frame" /\ last.res.ok
    /\ ~frame_set[last.res.num \div PAGE_SIZE]
    /\ MappedAt(Kernel, last.res.num) = {}
    /\ \E phys \in Frames : MappedAt(Kernel, phys) # {}

\* C8: alloc_frame returns Ok(i*P) for the lowest clear bit i, sets bit i and
\* no other bit; with every bit set it returns NoAvailableFrames and leaves
\* the bitset as it was.
C8_AllocFrameLowestClear ==
    [][last'.op = "alloc_frame" =>
         LET clear == {i \in FrameIdx : ~frame_set[i]} IN
         IF clear # {}
         THEN \E i \in clear :
                /\ \A j \in clear : i <= j
                /\ last'.res = OkNum(i * PAGE_SIZE)
                /\ frame_set' = [frame_set EXCEPT ![i] = TRUE]
         ELSE /\ last'.res = Err("NoAvailableFrames")
              /\ frame_set' = frame_set
      ]_vars

\* C8 witness: alloc_frame handed out frame 2 or a higher one (every lower
\* bit was set) while a frame above it stays free
C8_Witness ==
    /\ last.op = "alloc_frame" /\ last.res.ok
    /\ last.res.num >= 2 * PAGE_SIZE
    /\ frame_set[last.res.num \div PAGE_SIZE]
    /\ \E i \in FrameIdx : ~frame_set[i]

\* C10 as amended: alloc_frame_at on a mapped virt returns FrameInUse and
\* changes nothing; otherwise it sets the bit of phys/P and, when set_page
\* succeeds, virt maps a present frame with address phys and the given user
\* and writable flags; when set_page fails (AllocError) it returns that error,
\* virt stays unmapped and the bit stays set.
C10_AllocFrameAtResult ==
    [][last'.op = "alloc_frame_at" =>
         LET d == last'.d
             virt == last'.addr
             phys == last'.phys
             after == get_page(KernelNext, d, virt)
         IN IF IsSome(get_page(Kernel, d, virt))
            THEN last'.res = Err("FrameInUse") /\ KernelNext = Kernel
            ELSE /\ frame_set' = [frame_set EXCEPT ![phys \div PAGE_SIZE] = TRUE]
                 /\ last'.res.ok =>
                      /\ last'.res = OkUnit
                      /\ IsSome(after)
                      /\ Unwrap(after).present
                      /\ Unwrap(after).addr = phys
                      /\ Unwrap(after).user_mode = last'.user_mode
                      /\ Unwrap(after).writable = last'.writable
                 /\ ~last'.res.ok =>
                      /\ last'.res = Err("AllocError")
                      /\ ~IsSome(after)
      ]_vars

\* C10 as stated: ... otherwise it sets the bit for phys/P and afterwards
\* dir.get_page(virt) is a present frame with address phys and the given
\* user and writable flags.
C10_AllocFrameAtAlwaysMaps ==
    [][last'.op = "alloc_frame_at" =>
         LET d == last'.d
             virt == last'.addr
             phys == last'.phys
             after == get_page(KernelNext, d, virt)
         IN IF IsSome(get_page(Kernel, d, virt))
            THEN last'.res = Err("FrameInUse") /\ KernelNext = Kernel
            ELSE /\ frame_set' = [frame_set EXCEPT ![phys \div PAGE_SIZE] = TRUE]
                 /\ IsSome(after)
                 /\ Unwrap(after).present
                 /\ Unwrap(after).addr = phys
                 /\ Unwrap(after).user_mode = last'.user_mode
                 /\ Unwrap(after).writable = last'.writable
      ]_vars

\* C10 witness: alloc_frame_at mapped a page in a directory that had no page
\* table for it, user-accessible and read-only
C10_Witness ==
    /\ last.op = "alloc_frame_at" /\ last.res.ok
    /\ last.user_mode /\ ~last.writable
    /\ frame_set[last.phys \div PAGE_SIZE]
    /\ Unwrap(get_page(Kernel, last.d, last.addr)).addr = last.phys

\* C11 as stated: when alloc_frame_at returns an error because set_page
\* failed (AllocError or BadFrame), the frame bitset is the same as before
\* the call and virt is still unmapped.
C11_NoPartialStateOnError ==
    [][(/\ last'.op = "alloc_frame_at"
        /\ ~last'.res.ok
        /\ last'.res.err \in {"AllocError", "BadFrame"})
         => /\ frame_set' = frame_set
            /\ ~IsSome(get_page(KernelNext, last'.d, last'.addr))
      ]_vars

\* the directories of k2 are those of k
SameDirectories(k, k2) ==
    /\ k2.tables = k.tables
    /\ k2.tables_physical = k.tables_physical
    /\ k2.page_tables = k.page_tables

\* C12: free_frame(dir, virt) on a virt mapped to p clears bit p/P and no
\* other bit, unmaps virt and no other page, and returns Ok(p); on an
\* unmapped virt it returns FrameUnused and changes nothing.
C12_FreeFrameResult ==
    [][last'.op = "free_frame" =>
         LET d == last'.d
             virt == last'.addr
             before == get_page(Kernel, d, virt)
         IN IF IsSome(before)
            THEN /\ last'.res = OkNum(Unwrap(before).addr)
                 /\ frame_set' = [frame_set EXCEPT
                                    ![Unwrap(before).addr \div PAGE_SIZE] = FALSE]
                 /\ get_page(KernelNext, d, virt) = None
                 /\ \A m \in Dirs \X VirtPages :
                       m # <<d, virt>>
                         => get_page(KernelNext, m[1], m[2])
                              = get_page(Kernel, m[1], m[2])
                 /\ references' = references
            ELSE last'.res = Err("FrameUnused") /\ KernelNext = Kernel
      ]_vars

\* C12 witness: free_frame unmapped one page of a directory that still maps
\* another one, and a frame other than the freed one is still in use
C12_Witness ==
    /\ last.op = "free_frame" /\ last.res.ok
    /\ get_page(Kernel, last.d, last.addr) = None
    /\ ~frame_set[last.res.num \div PAGE_SIZE]
    /\ \E v \in UserPages : IsSome(get_page(Kernel, last.d, v))
    /\ \E i \in FrameIdx : i >= NumHeapPages /\ frame_set[i]

\* what remove_reference(phys) does to the counter and the bitset
RemoveReferenceEffect(k, k2, phys) ==
    LET idx == phys \div PAGE_SIZE IN
    /\ SameDirectories(k, k2)
    /\ (phys \in DOMAIN k.references /\ k.references[phys] >= 2) =>
          /\ k2.references = [k.references EXCEPT ![phys] = @ - 1]
          /\ k2.frame_set = k.frame_set
    /\ (phys \in DOMAIN k.references /\ k.references[phys] = 1) =>
          /\ DOMAIN k2.references = DOMAIN k.references \ {phys}
          /\ \A q \in DOMAIN k2.references : k2.references[q] = k.references[q]
          /\ k2.frame_set = [k.frame_set EXCEPT ![idx] = FALSE]
    /\ phys \notin DOMAIN k.references =>
          /\ k2.references = k.references
          /\ k2.frame_set = [k.frame_set EXCEPT ![idx] = FALSE]

\* C14: remove_reference(phys) on a count k >= 2 makes it k-1 and changes no
\* bit; on a count of 1 it removes the entry and clears the frame's bit; on
\* a frame with no entry it leaves the map alone and clears the frame's bit.
C14_RemoveReferenceResult ==
    [][last'.op = "remove_reference" =>
         RemoveReferenceEffect(Kernel, KernelNext, last'.addr)]_vars

\* C14 witness: remove_reference took the last reference of a frame: the
\* entry is gone and the bit is clear, while another frame is still counted
C14_Witness ==
    /\ last.op = "remove_reference"
    /\ last.addr \notin DOMAIN references
    /\ ~frame_set[last.addr \div PAGE_SIZE]
    /\ \E m \in Dirs \X VirtPages :
          /\ IsSome(get_page(Kernel, m[1], m[2]))
          /\ Unwrap(get_page(Kernel, m[1], m[2])).addr = last.addr
          /\ Unwrap(get_page(Kernel, m[1], m[2])).referenced
    /\ DOMAIN references # {}

\* C15 as amended: remove_reference_no_free(phys) on a count k >= 2 makes it
\* k-1; on a count of 1, or on a frame with no entry, it changes nothing;
\* it never clears a bitset bit and never removes an entry.
C15_RemoveNoFreeStopsAtOne ==
    [][last'.op = "remove_reference_no_free" =>
         LET phys == last'.addr IN
         /\ frame_set' = frame_set
         /\ SameDirectories(Kernel, KernelNext)
         /\ IF phys \in DOMAIN references /\ references[phys] >= 2
            THEN references' = [references EXCEPT ![phys] = @ - 1]
            ELSE references' = references
      ]_vars

\* C15 as stated: remove_reference_no_free(phys) on a frame that has an
\* entry with count k leaves get_references_for(phys) = k-1 and clears no
\* bit; on a frame with no entry it changes nothing.
C15_RemoveNoFreeDecrements ==
    [][last'.op = "remove_reference_no_free" =>
         LET phys == last'.addr IN
         /\ frame_set' = frame_set
         /\ IF phys \in DOMAIN references
            THEN get_references_for(KernelNext, phys) = references[phys] - 1
            ELSE KernelNext = Kernel
      ]_vars

\* C15 witness: remove_reference_no_free was called on a frame that two
\* pages map copy-on-write; its count is 1 and its bit is still set
C15_Witness ==
    /\ last.op = "remove_reference_no_free"
    /\ last.addr \in DOMAIN references
    /\ references[last.addr] = 1
    /\ frame_set[last.addr \div PAGE_SIZE]

\* C16: free_page(frame) takes one path chosen by the flags.  shared: the
\* shared-memory cleanup, and remove_reference only when the cleanup reports
\* failure; else referenced: remove_reference; else the bit of the frame is
\* cleared and the reference counter is untouched.
C16_FreePagePaths ==
    [][last'.op = "free_page" =>
         LET f == Unwrap(last'.page) IN
         IF f.shared
         THEN IF last'.freed
              THEN KernelNext = Kernel
              ELSE RemoveReferenceEffect(Kernel, KernelNext, f.addr)
         ELSE IF f.referenced
              THEN RemoveReferenceEffect(Kernel, KernelNext, f.addr)
              ELSE /\ references' = references
                   /\ SameDirectories(Kernel, KernelNext)
                   /\ frame_set' = [frame_set EXCEPT
                                      ![f.addr \div PAGE_SIZE] = FALSE]
      ]_vars

\* C16 witness: free_page of a shared, referenced frame whose cleanup
\* succeeded: the counter still holds the frame and its bit is still set
C16_Witness ==
    /\ last.op = "free_page"
    /\ Unwrap(last.page).shared /\ Unwrap(last.page).referenced
    /\ last.freed
    /\ last.addr \in DOMAIN references
    /\ frame_set[last.addr \div PAGE_SIZE]

(***************************************************************************)
(* Properties of the directory interface, the sweep and the transient      *)
(* mapper (checked under SpecMap)                                          *)
(***************************************************************************)

\* C13 as stated: after sync_from_dir(dir), for every page-aligned v with
\* dir.get_page(v) = Some(f) the bit f.addr / P is set.
C13_SyncMarksMappedFrames ==
    [][(last'.op = "sync_from_dir" /\ last'.res.ok) =>
         \A v \in VirtPages :
            IsSome(get_page(KernelNext, last'.d, v))
              => frame_set'[Unwrap(get_page(KernelNext, last'.d, v)).addr
                              \div PAGE_SIZE]
      ]_vars

\* the pages that overlap [addr, addr + len)
OverlapPages(addr, len) ==
    {((addr \div PAGE_SIZE) + j) * PAGE_SIZE :
        j \in 0 .. (((addr + len - 1) \div PAGE_SIZE) - (addr \div PAGE_SIZE))}

\* C17 as stated: map_memory_from(C, F, v, len, op) translates and maps
\* exactly the pages of F that overlap [v, v+len): it returns BadAddress
\* from the translation of the region only when one of those pages is
\* unmapped in F, and when it succeeds it has mapped exactly those pages (the
\* page that starts at v+len is neither required nor mapped).
C17_MapsExactlyOverlappingPages ==
    [][last'.op = "map_memory_from" =>
         LET ov == OverlapPages(last'.addr, last'.len) IN
         /\ last'.res.ok => Len(last'.addresses) = Cardinality(ov)
         /\ (last'.res = Err("BadAddress") /\ last'.stage = "region")
              => \E p \in ov : ~IsSome(get_page(Kernel, last'.from, p))
      ]_vars

\* the pages of the region of call c that are copy-on-write in its source
\* directory, in kernel state k
CowPagesOfRegion(k, c) ==
    {i \in region_pages(c.addr, c.len) :
        /\ IsSome(get_page(k, c.from, i))
        /\ IsCowPage(Unwrap(get_page(k, c.from, i)))}

\* C18 as stated: in map_memory_from the copy-on-write engine is applied to
\* each copy-on-write page i of the region itself: once the region has been
\* translated, F.get_page(i) is writable for each of them, and no entry of F
\* at another page of the user half has been rewritten.
C18_CowAppliedToEachPage ==
    [][(last'.op = "map_memory_from" /\ last'.stage = "map") =>
         /\ \A i \in CowPagesOfRegion(Kernel, last') :
               /\ IsSome(get_page(KernelNext, last'.from, i))
               /\ Unwrap(get_page(KernelNext, last'.from, i)).writable
         /\ \A v \in UserPages \ CowPagesOfRegion(Kernel, last') :
               get_page(KernelNext, last'.from, v)
                 = get_page(Kernel, last'.from, v)
      ]_vars

\* the pages of the buffer of call c
BufferPages(c) ==
    IF c.buf = NullPtr THEN {}
    ELSE {c.buf + (j - 1) * PAGE_SIZE : j \in 1 .. Len(c.addresses)}

\* C19: map_memory(C, addresses, op) leaves C's translations as it found
\* them on every return.  It returns Ok after running op exactly once, or
\* AllocError / BadAddress without running op; either way every page of the
\* buffer maps the physical frame it mapped before, no entry of C outside
\* the buffer is modified, and no page table is added.
C19_MapMemoryRestores ==
    [][(last'.op = "map_memory" /\ last'.res # Panic) =>
         /\ last'.res.ok => last'.ran = 1
         /\ ~last'.res.ok =>
               /\ last'.ran = 0
               /\ last'.res.err \in {"AllocError", "BadAddress"}
         /\ \A v \in VirtPages :
               virt_to_phys(KernelNext, last'.d, v)
                 = virt_to_phys(Kernel, last'.d, v)
         /\ \A v \in VirtPages \ BufferPages(last') :
               get_page(KernelNext, last'.d, v) = get_page(Kernel, last'.d, v)
         /\ tables' = tables
         /\ tables_physical' = tables_physical
      ]_vars

\* C19 witness: map_memory returned Ok after running op once on a buffer of
\* two pages mapped to two frames of user pages, and the buffer's pages are
\* back on the frames of the heap
C19_Witness ==
    /\ last.op = "map_memory" /\ last.res.ok /\ last.ran = 1
    /\ Len(last.addresses) = 2
    /\ last.addresses[1] # last.addresses[2]
    /\ last.buf = HEAP_START
    /\ virt_to_phys(Kernel, last.d, HEAP_START) = Some(0)
    /\ virt_to_phys(Kernel, last.d, HEAP_START + PAGE_SIZE) = Some(PAGE_SIZE)

\* C20: after D.set_page(v, Some(f)) has succeeded, D.set_page(v, None)
\* succeeds and leaves D.get_page(v) = None and D.is_unused(v), for v in the
\* user half and in the kernel half.
C20_SetThenClearUnmaps ==
    [][(/\ last.op = "set_page" /\ IsSome(last.page) /\ last.res.ok
        /\ last'.op = "set_page" /\ last'.page = None
        /\ last'.d = last.d /\ last'.addr = last.addr)
         => /\ last'.res.ok
            /\ get_page(KernelNext, last'.d, last'.addr) = None
            /\ is_unused(KernelNext, last'.d, last'.addr)
      ]_vars

\* C20 witness: a page of the kernel half was given a present frame and then
\* cleared in the directory of a process; it is unmapped and unused
C20_Witness ==
    /\ last.op = "set_page" /\ last.page = None /\ last.res.ok
    /\ last.addr \in HeapPages
    /\ last.d \in Procs
    /\ get_page(Kernel, last.d, last.addr) = None
    /\ is_unused(Kernel, last.d, last.addr)

(***************************************************************************)
(* Properties of the value copy_on_write returns (checked under Spec)      *)
(***************************************************************************)

\* C29: when copy_on_write(D, v, f) succeeds, the PageFrame it returns has
\* the physical address of the frame D.get_page(v) holds after the call.
C29_ReturnsInstalledFrame ==
    [][(last'.op = "copy_on_write" /\ last'.res.ok) =>
         /\ IsSome(get_page(KernelNext, last'.d, last'.addr))
         /\ Unwrap(last'.res.frame).addr
              = Unwrap(get_page(KernelNext, last'.d, last'.addr)).addr
      ]_vars

(***************************************************************************)
(* Properties of the read-only walks (checked under SpecScan)              *)
(***************************************************************************)

\* C21: for every virtual address v, aligned or not, the hardware
\* directory's virt_to_phys(v) equals the default PageDirectory::virt_to_phys:
\* None iff the page containing v is unmapped, otherwise the physical address
\* of the mapped frame combined with the offset of v in its page.
C21_HardwareMatchesDefault ==
    [][last'.op = "virt_to_phys" =>
         LET v == last'.addr
             page == get_page(Kernel, last'.d, (v \div PAGE_SIZE) * PAGE_SIZE)
         IN /\ last'.res = OkOpt(PageDirectory_virt_to_phys(Kernel, last'.d, v))
            /\ last'.res.bool <=> IsSome(page)
            /\ IsSome(page) =>
                  last'.res.num = Unwrap(page).addr + (v % PAGE_SIZE)
      ]_vars

\* the page-aligned addresses v of [start, end) at which n unused pages of
\* directory d start that all lie inside [start, end)
Holes(k, d, start, end, n) ==
    {v \in {start + j * PAGE_SIZE : j \in 0 .. ((end - start) \div PAGE_SIZE)} :
        /\ v < end
        /\ \A j \in 0 .. (n - 1) :
              /\ v + j * PAGE_SIZE < end
              /\ is_unused(k, d, v + j * PAGE_SIZE)}

\* ceil(size / PAGE_SIZE)
PagesFor(size) == (size + PAGE_SIZE - 1) \div PAGE_SIZE

\* C25: find_hole(dir, start, end, size), for page-aligned start and end,
\* returns the lowest page-aligned v of [start, end) such that the
\* ceil(size / P) pages from v on are unused in dir and inside [start, end),
\* and None iff there is no such v; with pages 0x1000, 0x2000 and 0x4000
\* mapped, find_hole(0, 0x10000, 0x2000) is 0x5000.
C25_FindHoleLowest ==
    [][(last'.op = "find_hole" /\ last'.res # Panic) =>
         LET holes == Holes(Kernel, last'.d, last'.addr, last'.end,
                            PagesFor(last'.len))
         IN /\ last'.res.bool <=> holes # {}
            /\ last'.res.bool =>
                  /\ last'.res.num \in holes
                  /\ \A v \in holes : last'.res.num <= v
      ]_vars

\* C38: whenever find_hole(dir, start, end, size) returns Some(v), v is
\* page-aligned, start <= v, v + size <= end, and every page that holds a
\* byte of [v, v + size) is unused in dir at the time of the call.
C38_FindHoleResultIsFree ==
    [][(last'.op = "find_hole" /\ last'.res # Panic /\ last'.res.bool) =>
         LET v == last'.res.num IN
         /\ v % PAGE_SIZE = 0
         /\ last'.addr <= v
         /\ v + last'.len <= last'.end
         /\ \A j \in 0 .. ((last'.len - 1) \div PAGE_SIZE) :
               is_unused(Kernel, last'.d, v + j * PAGE_SIZE)
      ]_vars

\* C38 witness: a hole of two pages was found above a mapped page
C38_Witness ==
    /\ last.op = "find_hole" /\ last.res # Panic /\ last.res.bool
    /\ last.len = 2 * PAGE_SIZE
    /\ last.res.num > last.addr
    /\ ~is_unused(Kernel, last.d, last.res.num - PAGE_SIZE)

\* C26: validate_region(dir, start, len) with len >= 1 is true iff every
\* page that overlaps the bytes [start, start + len) is mapped in dir.
C26_ValidateRegionExact ==
    [][(last'.op = "validate_region" /\ last'.len >= 1) =>
         (last'.res.bool <=>
            \A p \in OverlapPages(last'.addr, last'.len) :
               IsSome(get_page(Kernel, last'.d, p)))
      ]_vars

(***************************************************************************)
(* Properties of the singletons (checked under SpecBoot)                   *)
(***************************************************************************)

\* C27: set_page_manager and set_kernel_page_dir each succeed at most once:
\* the first call installs its argument, a later call panics and leaves the
\* installed value in place; get_page_manager and get_kernel_page_dir panic
\* when called before the corresponding setter, and only then.
C27_SettersOnceGettersAfter ==
    [][/\ last'.op = "set_page_manager" =>
            IF installed.PAGE_MANAGER
            THEN /\ last'.res = Panic
                 /\ installed'.PAGE_MANAGER
                 /\ frame_set' = frame_set
            ELSE /\ last'.res = OkUnit
                 /\ installed'.PAGE_MANAGER
                 /\ frame_set' = Unwrap(last'.manager)
       /\ last'.op = "set_kernel_page_dir" =>
            IF installed.KERNEL_PAGE_DIR
            THEN /\ last'.res = Panic
                 /\ installed'.KERNEL_PAGE_DIR
                 /\ tables'[KernelDir] = tables[KernelDir]
                 /\ tables_physical'[KernelDir] = tables_physical[KernelDir]
            ELSE /\ last'.res = OkUnit
                 /\ installed'.KERNEL_PAGE_DIR
                 /\ tables'[KernelDir] = Unwrap(last'.dir).tables
                 /\ tables_physical'[KernelDir]
                      = Unwrap(last'.dir).tables_physical
       /\ last'.op = "get_page_manager" =>
            (last'.res = Panic <=> ~installed.PAGE_MANAGER)
       /\ last'.op = "get_kernel_page_dir" =>
            (last'.res = Panic <=> ~installed.KERNEL_PAGE_DIR)
       /\ last'.res = Panic <=> halted'
      ]_vars

\* C27 witness: with both singletons installed, a second set_page_manager
\* with another manager has panicked and the first manager is still there
C27_Witness ==
    /\ last.op = "set_page_manager" /\ last.res = Panic /\ halted
    /\ installed.PAGE_MANAGER /\ installed.KERNEL_PAGE_DIR
    /\ frame_set # Unwrap(last.manager)
    /\ \E i \in FrameIdx : frame_set[i]

(***************************************************************************)
(* Properties of the task queue (checked under SpecQueue)                  *)
(***************************************************************************)

\* C28: after TaskQueue.remove_process(id) no waiting entry belongs to
\* process id, and the waiting entries of the other processes are all still
\* in the queue in their original relative order.
C28_RemoveProcessRemovesAll ==
    [][last'.op = "remove_process" =>
         LET t == last'.d
             id == last'.addr
         IN /\ \A i \in 1 .. Len(queue'[t]) : queue'[t][i].id.process # id
            /\ queue'[t] = SelectSeq(queue[t], LAMBDA e : e.id.process # id)
      ]_vars

(***************************************************************************)
(* Properties of the destructor of a directory (checked under SpecDrop)    *)
(***************************************************************************)

\* C22: with several CPUs that each have their own MMU base register, no
\* destructor of a directory gets past its assert, frees a page table or
\* runs to completion while the directory is loaded in the base register of
\* any CPU: a drop of a loaded directory panics before anything is freed.
C22_NoDropWhileLoaded ==
    [][/\ \A c \in CPUs :
            dropping'[c].pc # "idle" =>
                \A c2 \in CPUs : cr3'[c2] # DirPhys(dropping'[c].dir)
       /\ \A d \in dropped' \ dropped :
            \A c2 \in CPUs : cr3[c2] # DirPhys(d)
       /\ (last'.op = "drop" /\ last'.res = Panic) =>
            /\ tables' = tables
            /\ tables_physical' = tables_physical
      ]_vars

(***************************************************************************)
(* Properties of the urgent message channel (checked under SpecMsg and     *)
(* FairSpecMsg)                                                            *)
(***************************************************************************)

\* the messages of a log of processed entries
RECURSIVE MessagesOf(_)
MessagesOf(log) ==
    IF log = <<>> THEN <<>> ELSE <<Head(log).message>> \o MessagesOf(Tail(log))

\* the entry process_urgent_messages has popped and not finished with
InFlight(t) == IF drain[t].pc = "idle" THEN <<>> ELSE <<drain[t].entry>>

\* C23: in every interleaving of senders and of the drain of a thread, the
\* messages whose send returned Ok are processed exactly once and in the
\* order in which the sends were accepted (the accepted messages are the
\* processed ones, then the one being processed, then the queue); a send
\* that fails with OutOfMemory leaves the queue unchanged; and every
\* accepted message is eventually processed when the thread keeps draining.
C23_FifoExactlyOnceEventually ==
    /\ [](\A t \in DrainThreads :
             sent[t] = MessagesOf(done[t]) \o InFlight(t)
                         \o urgent_message_queue[t])
    /\ [][(last'.op = "send_urgent_message" /\ last' # last) =>
             IF last'.res.ok
             THEN /\ Len(urgent_message_queue'[last'.d])
                       = Len(urgent_message_queue[last'.d]) + 1
                  /\ done' = done
             ELSE /\ last'.res.err = "OutOfMemory"
                  /\ urgent_message_queue' = urgent_message_queue
                  /\ sent' = sent
          ]_vars
    /\ \A t \in DrainThreads, n \in 1 .. MaxSent :
          (Len(sent[t]) >= n) ~> (Len(done[t]) >= n)

\* C23 witness: two different messages were accepted for a thread while it
\* was not draining, the thread has processed both in the order they were
\* accepted, and a later send to it has failed
C23_Witness ==
    \E t \in DrainThreads :
        /\ Len(done[t]) = 2 /\ Len(sent[t]) = 2
        /\ done[t][1].message # done[t][2].message
        /\ done[t][1].message = sent[t][1]
        /\ done[t][2].message = sent[t][2]
        /\ urgent_message_queue[t] = <<>>
        /\ last.op = "send_urgent_message" /\ ~last.res.ok /\ last.d = t

\* C24: a processed TaskPageUpdate{process_id, addr} refreshed the TLB entry
\* iff the thread's task queue had a current task of process process_id at
\* the moment of the refresh (the current task did not change after the
\* test); a processed KernelPageUpdate always refreshed.
C24_RefreshIffCurrentProcess ==
    \A t \in DrainThreads : \A i \in 1 .. Len(done[t]) :
        LET e == done[t][i] IN
        IF e.message.kind = "TaskPageUpdate"
        THEN e.refreshed <=> (e.current # NoTask
                              /\ e.current = e.message.process_id)
        ELSE e.refreshed

\* C24 witness: a thread has processed a TaskPageUpdate for the process it
\* was running (refreshed) and, after a context switch, a TaskPageUpdate for
\* the same process while it ran another one (not refreshed)
C24_Witness ==
    \E t \in DrainThreads :
        /\ Len(done[t]) = 2
        /\ done[t][1].message.kind = "TaskPageUpdate" /\ done[t][1].refreshed
        /\ done[t][2].message = done[t][1].message
        /\ ~done[t][2].refreshed
        /\ done[t][2].current # NoTask

\* the waiting entries are ordered by non-increasing full priority
QueueSorted(q) ==
    \A i, j \in 1 .. Len(q) : i < j => q[i].priority >= q[j].priority
\* no two waiting entries have the same id
QueueNoDup(q) == \A i, j \in 1 .. Len(q) : i # j => q[i].id # q[j].id
\* the entry of the insert recorded in call c
InsertedEntry(c) ==
    [id |-> [process |-> c.addr, thread |-> c.len], priority |-> c.phys]
\* an accepted insert puts the entry behind every entry of the same or a
\* higher priority and before every entry of a lower one, and moves no
\* other entry; the other operations only take entries away
QueueStepKeepsOrder(t, c) ==
    IF c.op = "insert" /\ c.res.ok
    THEN \E i \in 1 .. Len(queue'[t]) :
            /\ queue'[t] = VecInsert(queue[t], i - 1, InsertedEntry(c))
            /\ \A j \in 1 .. (i - 1) :
                  queue'[t][j].priority >= InsertedEntry(c).priority
            /\ \A j \in (i + 1) .. Len(queue'[t]) :
                  queue'[t][j].priority < InsertedEntry(c).priority
    ELSE queue'[t] =
            SelectSeq(queue[t],
                      LAMBDA e : \E j \in 1 .. Len(queue'[t]) : queue'[t][j] = e)
Waiting(q, id) == \E i \in 1 .. Len(q) : q[i].id = id

\* C39 (amended): after any sequence of insert, consume, remove_thread and
\* remove_process the waiting queue is ordered by non-increasing
\* full_priority with entries of equal priority in insertion order, and
\* holds no two entries with the same id; insert of an id that is already
\* waiting leaves the queue unchanged and returns Exists when try_reserve(1)
\* succeeded and OutOfMemory when it failed.
C39_SortedStableNoDuplicates ==
    /\ [](\A t \in DrainThreads : QueueSorted(queue[t]) /\ QueueNoDup(queue[t]))
    /\ [][last'.op \in {"insert", "consume", "remove_thread", "remove_process"}
            => /\ QueueStepKeepsOrder(last'.d, last')
               /\ (last'.op = "insert"
                     /\ Waiting(queue[last'.d], InsertedEntry(last').id))
                   => /\ queue' = queue
                      /\ last'.res.err \in {"Exists", "OutOfMemory"}
               /\ (last'.op = "insert" /\ last'.res.err = "Exists")
                   => Waiting(queue[last'.d], InsertedEntry(last').id)
       ]_vars

\* C39 as stated: the same, but insert of an id that is already waiting
\* always returns Exists.
C39_InsertOfWaitingIdIsExists ==
    /\ [](\A t \in DrainThreads : QueueSorted(queue[t]) /\ QueueNoDup(queue[t]))
    /\ [][last'.op \in {"insert", "consume", "remove_thread", "remove_process"}
            => /\ QueueStepKeepsOrder(last'.d, last')
               /\ (last'.op = "insert"
                     /\ Waiting(queue[last'.d], InsertedEntry(last').id))
                   => /\ queue' = queue
                      /\ last'.res.err = "Exists"
       ]_vars

\* C39 witness: three entries wait, two of them of the same priority, and
\* the insert of an id that is waiting has just been refused with Exists
C39_Witness ==
    \E t \in DrainThreads :
       /\ Len(queue[t]) = 3
       /\ queue[t][1].priority > queue[t][3].priority
       /\ \E i \in 1 .. 2 : queue[t][i].priority = queue[t][i + 1].priority
       /\ last.op = "insert" /\ last.res.err = "Exists"
       /\ Waiting(queue[t], InsertedEntry(last).id)

(***************************************************************************)
(* Properties of the hardware directory's set_page (checked under SpecMap) *)
(***************************************************************************)
\* the fields of a frame that a table entry stores
SameStoredFields(g, f) ==
    /\ g.addr = f.addr /\ g.present = f.present /\ g.user_mode = f.user_mode
    /\ g.writable = f.writable /\ g.copy_on_write = f.copy_on_write
    /\ g.referenced = f.referenced /\ g.shared = f.shared
\* get_page of directory d is the same before and after for the pages vs
SamePages(d, vs) ==
    \A v \in vs : get_page(KernelNext, d, v) = get_page(Kernel, d, v)
\* a call set_page(v, Some(f)) with f present and f.addr page-aligned
IsSetPresent(c) ==
    /\ c.op = "set_page" /\ IsSome(c.page)
    /\ Unwrap(c.page).present /\ Unwrap(c.page).addr % PAGE_SIZE = 0

\* C34 (amended): set_page(v, Some(f)) on the hardware directory, f present
\* and f.addr page-aligned, fails with AllocError and changes nothing when
\* the table of v is missing and cannot be allocated; otherwise, for
\* f.addr < 2^32 it succeeds, get_page(v) then returns a frame with the
\* addr, present, user_mode, writable, copy_on_write, referenced and shared
\* of f and get_page of every other page is unchanged, and for
\* f.addr >= 2^32 it returns BadFrame and get_page is unchanged for every
\* address.
C34_RoundTripUnlessAllocError ==
    [][IsSetPresent(last') =>
         LET f == Unwrap(last'.page)
             d == last'.d
             v == last'.addr
         IN
         IF last'.res.err = "AllocError"
         THEN /\ ~IsSome(tables[d][TableIdxOf(v)])
              /\ KernelNext = Kernel
         ELSE IF f.addr < U32Limit
         THEN /\ last'.res.ok
              /\ IsSome(get_page(KernelNext, d, v))
              /\ SameStoredFields(Unwrap(get_page(KernelNext, d, v)), f)
              /\ SamePages(d, VirtPages \ {v})
         ELSE /\ last'.res.err = "BadFrame"
              /\ SamePages(d, VirtPages)
      ]_vars

\* C34 as stated: for every page-aligned f.addr < 2^32 with present set,
\* after set_page(v, Some(f)) get_page(v) returns a frame with the same
\* addr, present, user_mode, writable, copy_on_write, referenced and shared
\* values, and get_page of every other page is unchanged; for
\* f.addr >= 2^32 set_page returns BadFrame and get_page is unchanged for
\* every address.
C34_RoundTripAlways ==
    [][IsSetPresent(last') =>
         LET f == Unwrap(last'.page)
             d == last'.d
             v == last'.addr
         IN
         IF f.addr < U32Limit
         THEN /\ IsSome(get_page(KernelNext, d, v))
              /\ SameStoredFields(Unwrap(get_page(KernelNext, d, v)), f)
              /\ SamePages(d, VirtPages \ {v})
         ELSE /\ last'.res.err = "BadFrame"
              /\ SamePages(d, VirtPages)
      ]_vars

\* C34 witness: a frame with user_mode, copy_on_write, referenced and
\* shared set was stored over another mapping and is read back
C34_Witness ==
    /\ IsSetPresent(last) /\ last.res.ok
    /\ Unwrap(last.page).shared /\ Unwrap(last.page).copy_on_write
    /\ IsSome(get_page(Kernel, last.d, last.addr))
    /\ SameStoredFields(Unwrap(get_page(Kernel, last.d, last.addr)),
                        Unwrap(last.page))
    /\ \E v \in VirtPages \ {last.addr} : IsSome(get_page(Kernel, last.d, v))

\* C35: after set_page(v, Some(f)) on the hardware directory, the table
\* entry written for v has the Global bit (bit 8) set if and only if v is
\* in the kernel half (v >= K, the kernel split address).
C35_GlobalIffKernelHalf ==
    [][(last'.op = "set_page" /\ IsSome(last'.page) /\ last'.res.ok) =>
         LET slot == tables'[last'.d][TableIdxOf(last'.addr)]
             entry == page_tables'[Unwrap(slot).table][EntryIdxOf(last'.addr)]
         IN HasFlag(get_flags(entry), PTF_Global)
               <=> last'.addr >= KERNEL_PAGE_DIR_SPLIT
      ]_vars

(***************************************************************************)
(* Properties of the directory's tables (checked under SpecDir)            *)
(***************************************************************************)
\* C36: after any sequence of add_page_table, remove_page_table and
\* set_page on a hardware directory, slot i holds a table if and only if
\* the physical directory entry i is marked present, and the physical entry
\* of an absent slot is all zero.
C36_SlotsMatchPhysicalEntries ==
    \A d \in Dirs, i \in TableIdxs :
       /\ IsSome(tables[d][i])
             <=> HasFlag(get_flags(tables_physical[d][i]), PDF_Present)
       /\ ~IsSome(tables[d][i]) => tables_physical[d][i] = 0

\* a table added by a caller (not owned) is in one slot of a directory
\* after remove_page_table has emptied its other slot
C36_Witness ==
    /\ last.op = "remove_page_table" /\ last.freed
    /\ ~IsSome(tables[last.d][last.addr]) /\ tables_physical[last.d][last.addr] = 0
    /\ \E i \in TableIdxs \ {last.addr} :
          /\ IsSome(tables[last.d][i]) /\ ~Unwrap(tables[last.d][i]).can_free
          /\ Unwrap(tables[last.d][i]).table # KernelTable

\* the deallocs of kind `kind` of `what` in the log of CPU c
Deallocs(c, kind, what) ==
    {n \in DOMAIN deallocated[c] :
        deallocated[c][n].kind = kind /\ deallocated[c][n].what = what}

\* C37: when the destructor of a directory that is not current returns, it
\* has deallocated each table of a slot marked can_free exactly once and no
\* table of a slot not marked can_free, has released the two top-level
\* arrays if and only if the directory was heap-allocated, and every slot
\* is absent; a table that set_page allocates is marked can_free.
C37_DropReleasesWhatIsOwned ==
    [][/\ \A c \in CPUs :
            (dropping[c].pc = "tables" /\ dropping'[c] # dropping[c]) =>
               LET d == dropping[c].dir
                   i == CHOOSE x \in dropping[c].todo : x \notin dropping'[c].todo
                   slot == tables[d][i]
                   owned == IsSome(slot) /\ Unwrap(slot).can_free
                   new == SubSeq(deallocated'[c], Len(deallocated[c]) + 1,
                                 Len(deallocated'[c]))
               IN /\ owned => /\ Len(new) = 1 /\ new[1].kind = "table"
                              /\ new[1].what = Unwrap(slot).table
                              /\ Deallocs(c, "table", Unwrap(slot).table) = {}
                  /\ ~owned => new = <<>>
                  /\ ~IsSome(tables'[d][i])
       /\ \A c \in CPUs :
            (dropping[c].pc = "arrays" /\ dropping'[c].pc = "idle") =>
               LET d == dropping[c].dir IN
               /\ \A kind \in {"tables", "tables_physical"} :
                     IF dir_can_free[d]
                     THEN /\ Cardinality({n \in DOMAIN deallocated'[c] :
                                /\ deallocated'[c][n].kind = kind
                                /\ deallocated'[c][n].what = d}) = 1
                          /\ \A n \in DOMAIN deallocated'[c] :
                                (deallocated'[c][n].kind = kind) =>
                                   deallocated'[c][n].released
                     ELSE \A n \in DOMAIN deallocated'[c] :
                            deallocated'[c][n].kind # kind
               /\ \A i \in TableIdxs : ~IsSome(tables'[d][i])
       /\ (last'.op = "set_page" /\ last'.res # Err("AllocError")
             /\ ~IsSome(tables[last'.d][TableIdxOf(last'.addr)])) =>
               /\ IsSome(tables'[last'.d][TableIdxOf(last'.addr)])
               /\ Unwrap(tables'[last'.d][TableIdxOf(last'.addr)]).can_free
      ]_vars

(***************************************************************************)
(* Properties of the MMU state (checked under SpecMmu)                     *)
(***************************************************************************)
InSwitchTo(c) == dir_call[c].pc \in {"flags", "loaded", "stored"}
\* CPU c returns from switch_to in this step
SwitchReturns(c) == dir_call[c].pc = "stored" /\ dir_call'[c].pc = "idle"

\* C33: in switch_to on directory d, interrupts are disabled on the CPU
\* from the write of cr3 until CURRENT_PAGE_DIR has been updated; on return
\* the interrupt flag has the value it had at the call (the one get_flags
\* read), cr3 of the CPU is d.tables_physical_addr and, if no CPU has
\* entered switch_to since this call began and none is inside it now,
\* CURRENT_PAGE_DIR refers to d.
C33_SwitchToPostcondition ==
    [][\A c \in CPUs :
         /\ dir_call'[c].pc = "loaded" => ~interrupts'[c]
         /\ SwitchReturns(c) =>
              /\ interrupts'[c] = dir_call[c].flags
              /\ cr3'[c] = DirPhys(dir_call[c].dir)
              /\ (~dir_call[c].later /\ \A o \in CPUs \ {c} : ~InSwitchTo(o))
                    => CURRENT_PAGE_DIR' = Some(dir_call[c].dir)
      ]_vars

\* C32: in the hardware directory's set_page the table entry is stored
\* before the TLB entry of v is invalidated (the step that stores touches
\* no TLB, the step that invalidates stores nothing), the invalidation is
\* made if and only if the directory is the one in cr3 of the executing
\* CPU, and when set_page returns on the current directory the TLB of that
\* CPU holds no translation for v, so none that predates the new entry.
C32_StoreThenFlushIffCurrent ==
    [][\A c \in CPUs :
         /\ (dir_call[c].pc = "idle" /\ dir_call'[c].pc = "written") =>
               tlb' = tlb
         /\ (dir_call[c].pc = "written" /\ dir_call'[c].pc = "idle") =>
               LET d == dir_call[c].dir
                   v == dir_call[c].addr
               IN /\ <<tables, tables_physical, page_tables>>'
                       = <<tables, tables_physical, page_tables>>
                  /\ IF cr3[c] = DirPhys(d)
                     THEN tlb' = [tlb EXCEPT ![c][v] = None]
                     ELSE tlb' = tlb
                  /\ cr3'[c] = DirPhys(d) => tlb'[c][v] = None
      ]_vars

\* set_page has returned on a CPU whose cr3 names the directory: its TLB
\* has no entry for the page, the directory has a new present entry, and
\* the TLB of the other CPU, which has the directory loaded too, still
\* holds the entry it cached before
C32_Witness ==
    /\ last.op = "set_page" /\ last.stage = "flush"
    /\ HasFlag(get_flags(WalkEntry(last.d, last.addr)), PTF_Present)
    /\ \E c \in CPUs, o \in CPUs :
          /\ c # o /\ dir_call[c].pc = "idle"
          /\ cr3[c] = DirPhys(last.d) /\ tlb[c][last.addr] = None
          /\ cr3[o] = DirPhys(last.d) /\ IsSome(tlb[o][last.addr])
          /\ Unwrap(tlb[o][last.addr]) # WalkEntry(last.d, last.addr)

LockRank(l) ==
    IF l.kind = "dir" THEN 1 ELSE IF l.kind = "refs" THEN 2 ELSE 3

\* C30: no step takes a directory lock, the reference counter's lock or
\* the page manager's lock on a CPU that holds the page manager's lock,
\* and every lock a CPU takes comes later in the order directory ->
\* reference counter -> page manager than each lock it already holds; this
\* covers the arm of copy_on_write that puts the old entry back after
\* alloc_frame failed and the remove_reference call that frees a frame
C30_ManagerLockInnermost ==
    [][\A c \in CPUs :
         Len(held'[c]) > Len(held[c]) =>
            \A i \in 1 .. Len(held[c]) :
               /\ held[c][i] # ManagerLock
               /\ LockRank(held[c][i]) < LockRank(held'[c][Len(held'[c])])]_vars

\* C40: when two CPU threads concurrently run try_copy_on_write for the same
\* process and the same page, whose frame has reference count 2 with the
\* other reference held by a different process, the shared frame's
\* reference is released exactly once in total: after both calls finish the
\* frame still has a reference, is still marked used in the bitset and so
\* cannot be allocated while the other process maps it.
C40_SharedFrameReleasedOnce ==
    \A v \in UserPages, o \in Procs :
       LET page == get_page(Kernel, o, v) IN
       (/\ \A c \in CPUs : cow_call[c].pc = "idle"
        /\ IsSome(page) /\ IsCowPage(Unwrap(page)))
       => /\ get_references_for(Kernel, Unwrap(page).addr) >= 1
          /\ frame_set[Unwrap(page).addr \div PAGE_SIZE]

(***************************************************************************)
(* Properties of concurrent allocation (checked under SpecConc)            *)
(***************************************************************************)

\* how many times frame f was handed out by alloc_frame and not released
TimesHeld(f) == cpus[1].got[f] + cpus[2].got[f]

\* C9: in every interleaving of CPUs that take the manager through
\* get_page_manager() and call alloc_frame, no frame is handed out twice
\* without having been released in between; three successive allocations
\* return distinct addresses a, b, c, and after set_frame_free(b) the next
\* alloc_frame returns b.
C9_NoDoubleAllocation ==
    /\ \A f \in Frames : TimesHeld(f) <= 1
    /\ (/\ Len(hist) = 5
        /\ \A i \in 1 .. 3 : hist[i].op = "alloc_frame" /\ hist[i].ok
        /\ hist[4].op = "set_frame_free" /\ hist[4].frame = hist[2].frame
        /\ hist[5].op = "alloc_frame")
       => /\ hist[1].frame # hist[2].frame
          /\ hist[2].frame # hist[3].frame
          /\ hist[1].frame # hist[3].frame
          /\ hist[5].ok
          /\ hist[5].frame = hist[2].frame

\* C9 witness: a, b, c were handed out in a row, b was released and handed
\* out again, with both CPUs holding frames and one of them having waited
\* for the lock
C9_Witness ==
    /\ Len(hist) = 5
    /\ \A i \in 1 .. 3 : hist[i].op = "alloc_frame" /\ hist[i].ok
    /\ hist[4].op = "set_frame_free" /\ hist[4].frame = hist[2].frame
    /\ hist[5].op = "alloc_frame" /\ hist[5].frame = hist[2].frame
    /\ \A t \in CPUs : \E f \in Frames : cpus[t].got[f] = 1
    /\ \E t \in CPUs : cpus[t].has_warned

====
